---- MODULE Spec2Model ----
(***************************************************************************)
(* Model of the orkestrel/docs selective-sync orchestrator: package        *)
(* discovery, content hashing, the cache store and the runSync loop with   *)
(* its output adapters.                                                    *)
(***************************************************************************)
EXTENDS Integers, Sequences, FiniteSets, TLC

(***************************************************************************)
(* Strings.  State holds strings as atoms; every string operation of the   *)
(* code (split, includes, endsWith, toLowerCase, sort) is computed on the  *)
(* character sequence of the string.                                       *)
(***************************************************************************)
StrTable ==
       ("" :> <<>>)
    @@ ("core" :> <<"c", "o", "r", "e">>)
    @@ ("validator" :> <<"v", "a", "l", "i", "d", "a", "t", "o", "r">>)
    @@ ("docs" :> <<"d", "o", "c", "s">>)
    @@ ("@orkestrel/core" :> <<"@", "o", "r", "k", "e", "s", "t", "r", "e", "l", "/", "c", "o", "r", "e">>)
    @@ ("@acme/core" :> <<"@", "a", "c", "m", "e", "/", "c", "o", "r", "e">>)
    @@ ("@orkestrel/docs" :> <<"@", "o", "r", "k", "e", "s", "t", "r", "e", "l", "/", "d", "o", "c", "s">>)
    @@ ("w" :> <<"w">>)
    @@ ("orkestrel" :> <<"o", "r", "k", "e", "s", "t", "r", "e", "l">>)
    @@ ("elsewhere" :> <<"e", "l", "s", "e", "w", "h", "e", "r", "e">>)
    @@ ("packages" :> <<"p", "a", "c", "k", "a", "g", "e", "s">>)
    @@ ("guides" :> <<"g", "u", "i", "d", "e", "s">>)
    @@ ("api" :> <<"a", "p", "i">>)
    @@ ("src" :> <<"s", "r", "c">>)
    @@ ("index.md" :> <<"i", "n", "d", "e", "x", ".", "m", "d">>)
    @@ ("index.ts" :> <<"i", "n", "d", "e", "x", ".", "t", "s">>)
    @@ ("index.test.ts" :> <<"i", "n", "d", "e", "x", ".", "t", "e", "s", "t", ".", "t", "s">>)
    @@ ("typedoc.base.json" :> <<"t", "y", "p", "e", "d", "o", "c", ".", "b", "a", "s", "e", ".", "j", "s", "o", "n">>)
    @@ ("package.json" :> <<"p", "a", "c", "k", "a", "g", "e", ".", "j", "s", "o", "n">>)
    @@ ("cache.json" :> <<"c", "a", "c", "h", "e", ".", "j", "s", "o", "n">>)
    @@ ("tsconfig.json" :> <<"t", "s", "c", "o", "n", "f", "i", "g", ".", "j", "s", "o", "n">>)
    @@ ("main.ts" :> <<"m", "a", "i", "n", ".", "t", "s">>)
    @@ ("lib" :> <<"l", "i", "b">>)
    @@ ("/" :> <<"/">>)
    @@ ("/node_modules/" :> <<"/", "n", "o", "d", "e", "_", "m", "o", "d", "u", "l", "e", "s", "/">>)
    @@ ("/dist/" :> <<"/", "d", "i", "s", "t", "/">>)
    @@ ("/build/" :> <<"/", "b", "u", "i", "l", "d", "/">>)
    @@ (".test.ts" :> <<".", "t", "e", "s", "t", ".", "t", "s">>)
    @@ (".spec.ts" :> <<".", "s", "p", "e", "c", ".", "t", "s">>)
    @@ (".md" :> <<".", "m", "d">>)
    @@ ("0" :> <<"0">>) @@ ("1" :> <<"1">>) @@ ("2" :> <<"2">>) @@ ("3" :> <<"3">>)
    @@ ("no-guides" :> <<"n", "o", "-", "g", "u", "i", "d", "e", "s">>)
    @@ ("no-src" :> <<"n", "o", "-", "s", "r", "c">>)
    @@ ("no-typedoc-base" :> <<"n", "o", "-", "t", "y", "p", "e", "d", "o", "c", "-", "b", "a", "s", "e">>)
    @@ ("dist" :> <<"d", "i", "s", "t">>)
    @@ ("build" :> <<"b", "u", "i", "l", "d">>)
    @@ ("node_modules" :> <<"n", "o", "d", "e", "_", "m", "o", "d", "u", "l", "e", "s">>)
    @@ ("index.spec.ts" :> <<"i", "n", "d", "e", "x", ".", "s", "p", "e", "c", ".", "t", "s">>)
    @@ ("util.ts" :> <<"u", "t", "i", "l", ".", "t", "s">>)
    @@ ("util.test.ts" :> <<"u", "t", "i", "l", ".", "t", "e", "s", "t", ".", "t", "s">>)
    @@ ("core-team" :> <<"c", "o", "r", "e", "-", "t", "e", "a", "m">>)
    @@ ("val" :> <<"v", "a", "l">>)

Chars(s) == StrTable[s]

\* The atom of a character sequence (inverse of Chars).
Str(cs) == CHOOSE s \in DOMAIN StrTable : StrTable[s] = cs

\* UTF-16 code units, the order Array.prototype.sort compares strings by.
CharCode ==
       ("-" :> 45) @@ ("." :> 46) @@ ("/" :> 47) @@ ("0" :> 48) @@ ("1" :> 49) @@ ("2" :> 50) @@ ("3" :> 51)
    @@ ("4" :> 52) @@ ("5" :> 53) @@ ("6" :> 54) @@ ("7" :> 55) @@ ("8" :> 56) @@ ("9" :> 57)
    @@ ("@" :> 64) @@ ("A" :> 65) @@ ("B" :> 66) @@ ("C" :> 67) @@ ("D" :> 68) @@ ("E" :> 69)
    @@ ("F" :> 70) @@ ("G" :> 71) @@ ("H" :> 72) @@ ("I" :> 73) @@ ("J" :> 74) @@ ("K" :> 75)
    @@ ("L" :> 76) @@ ("M" :> 77) @@ ("N" :> 78) @@ ("O" :> 79) @@ ("P" :> 80) @@ ("Q" :> 81)
    @@ ("R" :> 82) @@ ("S" :> 83) @@ ("T" :> 84) @@ ("U" :> 85) @@ ("V" :> 86) @@ ("W" :> 87)
    @@ ("X" :> 88) @@ ("Y" :> 89) @@ ("Z" :> 90) @@ ("_" :> 95) @@ ("a" :> 97) @@ ("b" :> 98)
    @@ ("c" :> 99) @@ ("d" :> 100) @@ ("e" :> 101) @@ ("f" :> 102) @@ ("g" :> 103) @@ ("h" :> 104)
    @@ ("i" :> 105) @@ ("j" :> 106) @@ ("k" :> 107) @@ ("l" :> 108) @@ ("m" :> 109) @@ ("n" :> 110)
    @@ ("o" :> 111) @@ ("p" :> 112) @@ ("q" :> 113) @@ ("r" :> 114) @@ ("s" :> 115) @@ ("t" :> 116)
    @@ ("u" :> 117) @@ ("v" :> 118) @@ ("w" :> 119) @@ ("x" :> 120) @@ ("y" :> 121) @@ ("z" :> 122)

UpperToLower ==
       ("A" :> "a") @@ ("B" :> "b") @@ ("C" :> "c") @@ ("D" :> "d") @@ ("E" :> "e") @@ ("F" :> "f")
    @@ ("G" :> "g") @@ ("H" :> "h") @@ ("I" :> "i") @@ ("J" :> "j") @@ ("K" :> "k") @@ ("L" :> "l")
    @@ ("M" :> "m") @@ ("N" :> "n") @@ ("O" :> "o") @@ ("P" :> "p") @@ ("Q" :> "q") @@ ("R" :> "r")
    @@ ("S" :> "s") @@ ("T" :> "t") @@ ("U" :> "u") @@ ("V" :> "v") @@ ("W" :> "w") @@ ("X" :> "x")
    @@ ("Y" :> "y") @@ ("Z" :> "z")

\* String.prototype.toLowerCase
ToLowerCase(cs) ==
    [i \in 1..Len(cs) |-> IF cs[i] \in DOMAIN UpperToLower THEN UpperToLower[cs[i]] ELSE cs[i]]

\* String.prototype.includes
Includes(hay, needle) ==
    \E i \in 1..(Len(hay) - Len(needle) + 1) : SubSeq(hay, i, i + Len(needle) - 1) = needle

\* String.prototype.endsWith
EndsWith(cs, suffix) ==
    /\ Len(suffix) <= Len(cs)
    /\ SubSeq(cs, Len(cs) - Len(suffix) + 1, Len(cs)) = suffix

\* Default comparison of Array.prototype.sort on strings: a < b.
RECURSIVE LexLess(_, _)
LexLess(a, b) ==
    IF b = <<>> THEN FALSE
    ELSE IF a = <<>> THEN TRUE
    ELSE IF CharCode[Head(a)] # CharCode[Head(b)] THEN CharCode[Head(a)] < CharCode[Head(b)]
    ELSE LexLess(Tail(a), Tail(b))

(***************************************************************************)
(* Paths are absolute, POSIX: a sequence of segments.                      *)
(***************************************************************************)
RECURSIVE PathChars(_)
PathChars(p) ==
    IF p = <<>> THEN <<>> ELSE <<"/">> \o Chars(p[1]) \o PathChars(Tail(p))

\* path.join(dir, name): an empty segment adds nothing to the path.
Join(dir, name) == IF name = "" THEN dir ELSE Append(dir, name)

\* path.basename(p)
Basename(p) == IF p = <<>> THEN "" ELSE p[Len(p)]

\* path.resolve(p, "..")
Parent(p) == IF p = <<>> THEN <<>> ELSE SubSeq(p, 1, Len(p) - 1)

(***************************************************************************)
(* Bounds of the model.                                                    *)
(***************************************************************************)
\* Number of runSync invocations in a behaviour.
MaxRuns == 2
\* Number of edits of package inputs between runs.
MaxEdits == 1

(***************************************************************************)
(* The workspace.  <root>/orkestrel holds the sibling packages and the     *)
(* docs tool itself; fsp.readdir(parent) lists ParentEntries.              *)
(***************************************************************************)
WorkspaceDir == <<"w", "orkestrel">>
ParentEntries == <<"core", "docs", "validator">>
DirNames == {ParentEntries[i] : i \in 1..Len(ParentEntries)}
PkgDirNames == DirNames \ {"docs"}

\* Contents of <dir>/package.json: no file, a file JSON.parse rejects, an
\* object without a name (or with name null), an object whose name is not a
\* string (a number, say), or an object whose name is the given string.
ManifestMissing == "<missing>"
ManifestUnparsable == "<unparsable>"
ManifestNoName == "<noname>"
ManifestNumericName == "<name: 42>"
ManifestNames == {"@orkestrel/core", "@acme/core", "validator", "@orkestrel/docs"}
Manifests ==
    {ManifestMissing, ManifestUnparsable, ManifestNoName, ManifestNumericName, ""}
        \cup ManifestNames

\* A directory subtree: whether it exists, and its regular files, each a
\* path relative to the subtree root with its content.
NoTree == [exists |-> FALSE, files |-> {}]
EmptyTree == [exists |-> TRUE, files |-> {}]
OneFile(name, data) == [exists |-> TRUE, files |-> {[rel |-> <<name>>, data |-> data]}]

\* A single file (the shared typedoc.base.json).
NoFile == [exists |-> FALSE, data |-> ""]
File(data) == [exists |-> TRUE, data |-> data]

VARIABLES
    \* ---- filesystem: inputs
    cwd,          \* process.cwd()
    manifest,     \* [DirNames -> Manifests], <dir>/package.json
    guides,       \* [PkgDirNames -> tree], <dir>/guides
    src,          \* [PkgDirNames -> tree], <dir>/src
    pkgFiles,     \* [PkgDirNames -> set of relative paths], other files of <dir>
    deps,         \* the directories whose package.json declares dependencies
    typedocBase,  \* <cwd>/typedoc.base.json
    \* ---- filesystem: outputs under <cwd>/packages
    packagesRoot, \* whether <cwd>/packages exists
    outGuides,    \* [base name -> tree], packages/<baseName>/guides
    outApi,       \* [base name -> record], packages/<baseName>/api
    outLlms,      \* [base name -> record], packages/<baseName>/llms*.txt
    cacheFile,    \* packages/cache.json, as a document
    \* ---- one runSync invocation
    pc,           \* position in runSync
    opts,         \* SyncOptions of the run
    discovered,   \* Array<{pkgDir, baseName}>
    idx,          \* index of the loop over discovered
    cache,        \* the CacheFile held in memory
    cur,          \* locals of the loop body
    err,          \* the error runSync rejected with ("" while none)
    log,          \* console.log lines of the run
    \* ---- history
    acts,         \* side effects the run performed, in order
    ran,          \* adapters invoked for the package being processed
    startCache,   \* cacheFile when the run started
    startFs,      \* the output filesystem when the run started
    rerun,        \* the run repeats a successful non-dry run, nothing changed since
    prior,        \* the log of the completed dry run this run repeats as a non-dry run
    seen,         \* the base names non-dry runs processed, and those of runs that saved
    touched,      \* inputs were edited since the last run ended
    now,          \* number of runs started (the clock of updatedAt)
    edits         \* number of edits made

envVars == <<cwd, manifest, guides, src, pkgFiles, deps, typedocBase>>
outVars == <<packagesRoot, outGuides, outApi, outLlms>>
runVars == <<pc, opts, discovered, idx, cache, cur, err, log>>
histVars == <<acts, ran, startCache, startFs, rerun, prior, seen, touched, now, edits>>
vars == <<envVars, outVars, cacheFile, runVars, histVars>>

(***************************************************************************)
(* helpers.ts                                                              *)
(***************************************************************************)
\* getPackageMeta: null for a missing or unparsable package.json.
NullMeta == [ok |-> FALSE, name |-> ""]
\* A reader that takes a package.json it cannot parse for an empty object.
getPackageMetaLenient(m) ==
    IF m = ManifestMissing THEN NullMeta
    ELSE [ok |-> TRUE, name |-> IF m = ManifestUnparsable THEN ManifestNoName ELSE m]
getPackageMeta(m) ==
    IF m \in {ManifestMissing, ManifestUnparsable} THEN NullMeta
    ELSE [ok |-> TRUE, name |-> m]

\* name.split('/') and its last part.
LastPart(cs) ==
    LET slashes == {i \in 1..Len(cs) : cs[i] = "/"}
    IN  IF slashes = {} THEN cs
        ELSE SubSeq(cs, (CHOOSE i \in slashes : \A j \in slashes : j <= i) + 1, Len(cs))

toBaseName(name) == Str(LastPart(Chars(name)))

\* A filter that compares names only.
matchesFilterNamesOnly(baseName, dir, patterns, defaultWhenEmpty) ==
    IF Len(patterns) = 0 THEN defaultWhenEmpty
    ELSE \E i \in 1..Len(patterns) : patterns[i] \in {baseName, Basename(dir)}

\* matchesFilter(baseName, dir, patterns, defaultWhenEmpty)
matchesFilter(baseName, dir, patterns, defaultWhenEmpty) ==
    IF Len(patterns) = 0 THEN defaultWhenEmpty
    ELSE LET dirName == Basename(dir)
             nameVariants == {baseName, dirName}
         IN  \E i \in 1..Len(patterns) :
                 \/ patterns[i] \in nameVariants
                 \/ Includes(PathChars(dir), Chars(patterns[i]))

\* walkDir(absDir): the absolute paths of the files of the subtree.
walkDir(absDir, tree) == {absDir \o f.rel : f \in tree.files}

\* The arrays walkDir can return: fsp.readdir lists the entries of a
\* directory in an order the filesystem chooses.
Listings(S) == {l \in [1..Cardinality(S) -> S] : \A x \in S : \E i \in 1..Cardinality(S) : l[i] = x}

\* The array walkDir returns on a given machine.
Listing(S) == CHOOSE l \in Listings(S) : TRUE

\* The paths in ascending order of their strings.
RECURSIVE SortPaths(_)
SortPaths(S) ==
    IF S = {} THEN <<>>
    ELSE LET m == CHOOSE x \in S : \A y \in S : x = y \/ LexLess(PathChars(x), PathChars(y))
         IN  <<m>> \o SortPaths(S \ {m})

\* A hash over the files in the order walkDir returned them.
SortOmitted(files) == files

\* Array.prototype.sort() of an array of paths.
Sort(files) == SortPaths({files[i] : i \in 1..Len(files)})

\* fsp.readFile of a file of the subtree rooted at absDir.
ReadTreeFile(absDir, tree, abs) == (CHOOSE f \in tree.files : absDir \o f.rel = abs).data

\* The argument of one hash.update call.
PathChunk(p) == [k |-> "path", v |-> p]
DataChunk(d) == [k |-> "data", v |-> <<d>>]

\* The bytes the hash has consumed: the updates, concatenated.
RECURSIVE Concat(_)
Concat(stream) ==
    IF stream = <<>> THEN <<>>
    ELSE (IF Head(stream).k = "path" THEN PathChars(Head(stream).v) ELSE Chars(Head(stream).v[1]))
         \o Concat(Tail(stream))

\* A hex digest: sha256 is taken to be injective on the bytes consumed.
\* The empty string is no digest of anything.
Digest(stream) == [alg |-> "sha256", input |-> Concat(stream)]
EmptyString == [alg |-> "", input |-> <<>>]

\* hashFile(absPath, hash) for every path of the sequence, in order.
RECURSIVE HashFiles(_, _, _)
HashFiles(paths, absDir, tree) ==
    IF paths = <<>> THEN <<>>
    ELSE <<PathChunk(Head(paths)), DataChunk(ReadTreeFile(absDir, tree, Head(paths)))>>
         \o HashFiles(Tail(paths), absDir, tree)

\* A filter that knows test files only.
shouldSkipTestsOnly(absPath) ==
    LET rel == ToLowerCase(PathChars(absPath))
    IN  EndsWith(rel, Chars(".test.ts")) \/ EndsWith(rel, Chars(".spec.ts"))

shouldSkipForApi(absPath) ==
    LET rel == ToLowerCase(PathChars(absPath))
    IN  \/ Includes(rel, Chars("/node_modules/"))
        \/ Includes(rel, Chars("/dist/"))
        \/ Includes(rel, Chars("/build/"))
        \/ EndsWith(rel, Chars(".test.ts"))
        \/ EndsWith(rel, Chars(".spec.ts"))

\* A guides hash without the marker: no directory hashes like an empty one.
computeGuidesHashNoMarker(pkgDir, guidesTree, listing) ==
    Digest(HashFiles(Sort(listing), Join(pkgDir, "guides"), guidesTree))

\* `listing` is what walkDir(guidesDir) returned.
computeGuidesHash(pkgDir, guidesTree, listing) ==
    LET guidesDir == Join(pkgDir, "guides")
    IN  IF ~guidesTree.exists THEN Digest(<<DataChunk("no-guides")>>)
        ELSE Digest(HashFiles(Sort(listing), guidesDir, guidesTree))

\* `listing` is what walkDir(srcDir) returned.
computeApiHash(pkgDir, srcTree, listing, typedocBasePath, base) ==
    LET srcDir == Join(pkgDir, "src")
        files == Sort(SelectSeq(listing, LAMBDA f : ~shouldSkipForApi(f)))
        srcPart == IF ~srcTree.exists THEN <<DataChunk("no-src")>>
                   ELSE HashFiles(files, srcDir, srcTree)
        basePart == IF base.exists THEN <<PathChunk(typedocBasePath), DataChunk(base.data)>>
                    ELSE <<DataChunk("no-typedoc-base")>>
    IN  Digest(srcPart \o basePart)

(***************************************************************************)
(* The cache store.  A cache.json on disk is a document: no file, a file   *)
(* JSON.parse rejects, a JSON value without members (null, a number), or   *)
(* an object.  Of an object, "version" is absent, falsy (0, "", null), the *)
(* number 1 or another truthy value; "packages" is absent, falsy, a        *)
(* string-keyed map, an array or a truthy primitive (a string, a number).  *)
(***************************************************************************)
NoEntries == <<>>
Doc(file, version, packages, entries) ==
    [file |-> file, version |-> version, packages |-> packages, entries |-> entries]
MissingDoc == Doc("missing", "absent", "absent", NoEntries)
GarbageDoc == Doc("garbage", "absent", "absent", NoEntries)
NonObjectDoc == Doc("nonobject", "absent", "absent", NoEntries)
ObjectDoc(version, packages, entries) == Doc("object", version, packages, entries)

\* The CacheFile value held in memory.
CacheValue(version, packages, entries) ==
    [version |-> version, packages |-> packages, entries |-> entries]
EmptyCache == CacheValue("1", "map", NoEntries)

\* How a call completes: normally with a value, or by throwing.
Return(v) == [threw |-> FALSE, error |-> "", value |-> v]
Thrown(e) == [threw |-> TRUE, error |-> e, value |-> EmptyCache]

\* The try block of loadCache: read, parse, check the two members.
TryLoad(doc) ==
    IF doc.file = "missing" THEN Thrown("ENOENT")
    ELSE IF doc.file = "garbage" THEN Thrown("SyntaxError")
    ELSE IF doc.file = "nonobject" THEN Thrown("Invalid cache file")
    ELSE IF doc.version \in {"absent", "falsy"} \/ doc.packages \in {"absent", "falsy"}
         THEN Thrown("Invalid cache file")
    ELSE Return(CacheValue(doc.version, doc.packages, doc.entries))

\* A loadCache without the catch clause.
loadCacheNoCatch(doc) == TryLoad(doc)

\* loadCache: whatever the try block throws is caught.
loadCache(doc) ==
    IF TryLoad(doc).threw THEN Return(EmptyCache) ELSE TryLoad(doc)

\* JSON.stringify(cache, null, 2) written to the file: of an array only the
\* indexed elements are serialised, the named properties are dropped.
saveCache(c) ==
    ObjectDoc(c.version, c.packages, IF c.packages = "map" THEN c.entries ELSE NoEntries)

Entry(g, a, t) == [guidesHash |-> g, apiHash |-> a, updatedAt |-> t]

\* cache.packages[baseName] ?? { guidesHash: "", apiHash: "" }
Cached(c, baseName) ==
    IF baseName \in DOMAIN c.entries THEN c.entries[baseName]
    ELSE Entry(EmptyString, EmptyString, 0)

\* cache.packages[baseName] = entry.  Modules run in strict mode, where
\* creating a property on a primitive throws a TypeError.
CanSetEntry(c) == c.packages # "prim"
SetEntry(c, baseName, e) == [c EXCEPT !.entries = (baseName :> e) @@ c.entries]

(***************************************************************************)
(* runner.ts: discovery                                                    *)
(***************************************************************************)
Filters ==
    { [include |-> i, exclude |-> e] :
        i \in {<<>>, <<"core">>, <<"val">>, <<"validator", "core">>},
        e \in {<<>>, <<"validator">>, <<"core">>} }

SyncOptions ==
    { [include |-> f.include, exclude |-> f.exclude, clean |-> c, hard |-> h,
       generateLlms |-> l, dryRun |-> d] :
         f \in Filters, c \in BOOLEAN, h \in BOOLEAN, l \in BOOLEAN, d \in BOOLEAN }

\* The options the runs of Spec are started with: every flag, two filters.
RunOptions ==
    {o \in SyncOptions : o.include = <<>> /\ o.exclude \in {<<>>, <<"validator">>}}

\* Before the first run: nothing processed; whether cache.json is absent or
\* unreadable, so that the first run starts from the empty cache.
NoneSeen(doc) ==
    [fresh |-> doc.file \in {"missing", "garbage"}, any |-> {}, kept |-> {}, last |-> <<>>]

\* The record of an adapter call on the output of a category of a package:
\* the digest of the inputs it ran against, and whether it returned.
Called(s, baseName, category, digest, ok) ==
    [s EXCEPT !.last = (<<baseName, category>> :> [digest |-> digest, ok |-> ok]) @@ @]

\* No completed dry run precedes the run.
NoPrior == [dry |-> FALSE, log |-> <<>>]

NoOptions ==
    [include |-> <<>>, exclude |-> <<>>, clean |-> FALSE, hard |-> FALSE,
     generateLlms |-> FALSE, dryRun |-> FALSE]

\* entries.filter(isDirectory).map(join).filter(not docs).filter(has package.json)
RECURSIVE Candidates(_, _, _)
Candidates(parent, entries, mf) ==
    IF entries = <<>> THEN <<>>
    ELSE LET dir == Join(parent, Head(entries))
             rest == Candidates(parent, Tail(entries), mf)
         IN  IF Basename(dir) # "docs" /\ mf[Head(entries)] # ManifestMissing
             THEN <<dir>> \o rest ELSE rest

\* toBaseName(meta.name ?? basename) on a name that is neither nullish nor
\* a string: name.split is not a function, a TypeError out of the loop.
DiscoverThrows(candidates, mf) ==
    \E i \in 1..Len(candidates) :
        LET meta == getPackageMeta(mf[Basename(candidates[i])])
        IN  meta.ok /\ meta.name = ManifestNumericName

\* The loop over candidates that fills `discovered` (when it does not throw).
RECURSIVE Discover(_, _, _)
Discover(candidates, mf, o) ==
    IF candidates = <<>> THEN <<>>
    ELSE LET pkgDir == Head(candidates)
             meta == getPackageMeta(mf[Basename(pkgDir)])
             rest == Discover(Tail(candidates), mf, o)
         IN  IF ~meta.ok THEN rest
             ELSE LET baseName == toBaseName(IF meta.name = ManifestNoName
                                             THEN Basename(pkgDir) ELSE meta.name)
                      includeOk == matchesFilter(baseName, pkgDir, o.include, TRUE)
                      excludeOk == ~matchesFilter(baseName, pkgDir, o.exclude, FALSE)
                  IN  IF ~includeOk \/ ~excludeOk THEN rest
                      ELSE <<[pkgDir |-> pkgDir, baseName |-> baseName]>> \o rest

\* Every base name a package of the workspace can resolve to.
BaseNames == {toBaseName(n) : n \in ManifestNames \cup DirNames}

(***************************************************************************)
(* Output records                                                          *)
(***************************************************************************)
NoApi == [exists |-> FALSE, md |-> FALSE, entryPoints |-> <<>>, strategy |-> "", of |-> {}]
NoLlms == [exists |-> FALSE, docsRoot |-> <<>>, of |-> {}]

NoCur ==
    [pkgDir |-> <<>>, baseName |-> "", guidesHash |-> EmptyString, apiHash |-> EmptyString,
     guidesChanged |-> FALSE, apiChanged |-> FALSE]

\* Everything on disk.
Fs ==
    <<manifest, guides, src, pkgFiles, typedocBase,
      packagesRoot, outGuides, outApi, outLlms, cacheFile>>

(***************************************************************************)
(* Initial states: a workspace on disk before the first run.               *)
(***************************************************************************)
Cwd == <<"w", "orkestrel", "docs">>
ForeignCwd == <<"w", "elsewhere", "docs">>

SrcWithTest ==
    [exists |-> TRUE,
     files |-> {[rel |-> <<"index.ts">>, data |-> "0"], [rel |-> <<"index.test.ts">>, data |-> "0"]}]

\* Two packages with distinct names; validator has no guides and declares
\* dependencies that are not installed.
Distinct ==
    [manifest |-> ("core" :> "@orkestrel/core") @@ ("validator" :> "validator")
                  @@ ("docs" :> "@orkestrel/docs"),
     src |-> ("core" :> SrcWithTest) @@ ("validator" :> OneFile("index.ts", "0")),
     deps |-> {"validator"}]

\* Two packages whose names have the same last part.
SameBase ==
    [manifest |-> ("core" :> "@orkestrel/core") @@ ("validator" :> "@acme/core")
                  @@ ("docs" :> "@orkestrel/docs"),
     src |-> ("core" :> SrcWithTest) @@ ("validator" :> OneFile("index.ts", "0")),
     deps |-> {}]

\* A package without a name and without src; a directory whose manifest
\* does not parse.
Sparse ==
    [manifest |-> ("core" :> ManifestNoName) @@ ("validator" :> ManifestUnparsable)
                  @@ ("docs" :> "@orkestrel/docs"),
     src |-> ("core" :> NoTree) @@ ("validator" :> OneFile("index.ts", "0")),
     deps |-> {}]

\* An entry left by a package that is no longer in the workspace.
StaleEntry == Entry(Digest(<<DataChunk("no-guides")>>), Digest(<<DataChunk("no-src")>>), 0)

InitDocs ==
    { MissingDoc, GarbageDoc,
      ObjectDoc("absent", "map", ("legacy" :> StaleEntry)),
      ObjectDoc("1", "map", ("legacy" :> StaleEntry)),
      ObjectDoc("1", "prim", NoEntries),
      ObjectDoc("1", "array", NoEntries) }

\* No directory holds a usable package.
Bare ==
    [manifest |-> ("core" :> ManifestMissing) @@ ("validator" :> ManifestUnparsable)
                  @@ ("docs" :> "@orkestrel/docs"),
     src |-> ("core" :> NoTree) @@ ("validator" :> NoTree),
     deps |-> {}]

\* A package whose manifest declares a number as its name.
Numeric ==
    [manifest |-> ("core" :> ManifestNumericName) @@ ("validator" :> "validator")
                  @@ ("docs" :> "@orkestrel/docs"),
     src |-> ("core" :> NoTree) @@ ("validator" :> OneFile("index.ts", "0")),
     deps |-> {}]

\* Packages with several of the conventional entry files: core has
\* src/index.ts and src/main.ts, validator has index.ts and lib/index.ts and
\* no src directory.
SrcIndexAndMain ==
    [exists |-> TRUE,
     files |-> {[rel |-> <<"index.ts">>, data |-> "0"], [rel |-> <<"main.ts">>, data |-> "0"]}]

ManyEntries ==
    [manifest |-> ("core" :> "@orkestrel/core") @@ ("validator" :> "validator")
                  @@ ("docs" :> "@orkestrel/docs"),
     src |-> ("core" :> SrcIndexAndMain) @@ ("validator" :> NoTree),
     files |-> ("core" :> {}) @@ ("validator" :> {<<"index.ts">>, <<"lib", "index.ts">>}),
     deps |-> {}]

\* The files of the package directories of a scenario outside src and guides.
ScenarioFiles(sc) ==
    IF "files" \in DOMAIN sc THEN sc.files ELSE [d \in PkgDirNames |-> {}]

Scenarios ==
    {<<Cwd, Distinct, d>> : d \in InitDocs}
    \cup {<<Cwd, SameBase, MissingDoc>>, <<Cwd, Sparse, MissingDoc>>,
          <<Cwd, Bare, MissingDoc>>, <<ForeignCwd, Distinct, MissingDoc>>,
          <<Cwd, Numeric, MissingDoc>>, <<Cwd, ManyEntries, MissingDoc>>}

Init ==
    \E sc \in Scenarios :
        /\ cwd = sc[1]
        /\ manifest = sc[2].manifest
        /\ guides = ("core" :> OneFile("index.md", "0")) @@ ("validator" :> NoTree)
        /\ src = sc[2].src
        /\ pkgFiles = ScenarioFiles(sc[2])
        /\ deps = sc[2].deps
        /\ typedocBase = File("0")
        /\ packagesRoot = (sc[3].file # "missing")
        /\ outGuides = [b \in BaseNames |-> NoTree]
        /\ outApi = [b \in BaseNames |-> NoApi]
        /\ outLlms = [b \in BaseNames |-> NoLlms]
        /\ cacheFile = sc[3]
        /\ pc = "idle"
        /\ opts = NoOptions
        /\ discovered = <<>>
        /\ idx = 0
        /\ cache = EmptyCache
        /\ cur = NoCur
        /\ err = ""
        /\ log = <<>>
        /\ acts = <<>>
        /\ ran = {}
        /\ startCache = sc[3]
        /\ startFs = <<manifest, guides, src, pkgFiles, typedocBase,
                       packagesRoot, outGuides, outApi, outLlms, cacheFile>>
        /\ rerun = FALSE
        /\ prior = NoPrior
        /\ seen = NoneSeen(cacheFile)
        /\ touched = FALSE
        /\ now = 0
        /\ edits = 0

(***************************************************************************)
(* runSync, lines 52-104: precondition, packages root, discovery, load     *)
(***************************************************************************)
Terminal == {"idle", "done", "failed"}

Line(msg, pkg) == [msg |-> msg, pkg |-> pkg]
Act(ev, pkg) == [ev |-> ev, pkg |-> pkg]

ParentCandidates == Candidates(Parent(cwd), ParentEntries, manifest)
Discovered(o) == Discover(ParentCandidates, manifest, o)

\* What every start of a run does to the history variables.
Starts(o) ==
    /\ pc \in Terminal
    /\ now < MaxRuns
    /\ o \in SyncOptions
    /\ opts' = o
    /\ now' = now + 1
    /\ startCache' = cacheFile
    /\ startFs' = Fs
    /\ rerun' = (pc = "done" /\ ~opts.dryRun /\ ~touched /\ o = opts)
    /\ prior' = IF pc = "done" /\ opts.dryRun /\ ~touched /\ o = [opts EXCEPT !.dryRun = FALSE]
                THEN [dry |-> TRUE, log |-> log] ELSE NoPrior
    /\ touched' = FALSE
    /\ ran' = {}
    /\ cur' = NoCur
    /\ UNCHANGED <<envVars, outGuides, outApi, outLlms, cacheFile, edits, seen>>

\* A precondition checked after the packages root was created.
RunRejectLate(o) ==
    /\ Starts(o)
    /\ Basename(Parent(cwd)) # "orkestrel"
    /\ pc' = "failed"
    /\ err' = "parent"
    /\ discovered' = <<>>
    /\ idx' = 0
    /\ cache' = EmptyCache
    /\ log' = <<>>
    /\ packagesRoot' = (packagesRoot \/ ~o.dryRun)
    /\ acts' = IF ~packagesRoot /\ ~o.dryRun THEN <<Act("mkdir", "")>> ELSE <<>>

\* The parent of the working directory is not named orkestrel: throw.
RunReject(o) ==
    /\ Starts(o)
    /\ Basename(Parent(cwd)) # "orkestrel"
    /\ pc' = "failed"
    /\ err' = "parent"
    /\ discovered' = <<>>
    /\ idx' = 0
    /\ cache' = EmptyCache
    /\ log' = <<>>
    /\ acts' = <<>>
    /\ UNCHANGED packagesRoot

\* A packages root created without looking at dryRun.
MakeRootAlways(o) ==
    /\ packagesRoot' = TRUE
    /\ acts' = IF ~packagesRoot THEN <<Act("mkdir", "")>> ELSE <<>>

\* mkdir -p <cwd>/packages when it is missing (reported only, in dry-run).
MakeRoot(o) ==
    /\ packagesRoot' = (packagesRoot \/ ~o.dryRun)
    /\ acts' = IF ~packagesRoot /\ ~o.dryRun THEN <<Act("mkdir", "")>> ELSE <<>>

RootLog(o) == IF ~packagesRoot /\ o.dryRun THEN <<Line("[dry-run] mkdir -p", "")>> ELSE <<>>

\* Resolving a base name throws: the run rejects out of the discovery loop.
RunDiscoverFail(o) ==
    /\ Starts(o)
    /\ Basename(Parent(cwd)) = "orkestrel"
    /\ DiscoverThrows(ParentCandidates, manifest)
    /\ MakeRoot(o)
    /\ pc' = "failed"
    /\ err' = "name.split is not a function"
    /\ discovered' = <<>>
    /\ idx' = 0
    /\ cache' = EmptyCache
    /\ log' = RootLog(o)

\* No package passes the filters: return before the cache is loaded.
RunNoPackages(o) ==
    /\ Starts(o)
    /\ Basename(Parent(cwd)) = "orkestrel"
    /\ ~DiscoverThrows(ParentCandidates, manifest)
    /\ Discovered(o) = <<>>
    /\ MakeRoot(o)
    /\ pc' = "done"
    /\ err' = ""
    /\ discovered' = <<>>
    /\ idx' = 0
    /\ cache' = EmptyCache
    /\ log' = Append(RootLog(o), Line("No packages found matching filters.", ""))

\* Packages are discovered: load the cache and enter the loop.
RunLoad(o) ==
    /\ Starts(o)
    /\ Basename(Parent(cwd)) = "orkestrel"
    /\ ~DiscoverThrows(ParentCandidates, manifest)
    /\ Discovered(o) # <<>>
    /\ MakeRoot(o)
    /\ pc' = IF loadCache(cacheFile).threw THEN "failed" ELSE "hash"
    /\ err' = loadCache(cacheFile).error
    /\ discovered' = Discovered(o)
    /\ idx' = 1
    /\ cache' = loadCache(cacheFile).value
    /\ log' = RootLog(o)

(***************************************************************************)
(* runSync, lines 106-188: the loop body                                   *)
(***************************************************************************)
Pkg == discovered[idx]
PkgName == Basename(Pkg.pkgDir)
DocsPackagesRoot == Join(cwd, "packages")
OutRoot(baseName) == Join(DocsPackagesRoot, baseName)
TypedocBasePath == Join(cwd, "typedoc.base.json")

GuidesListing(pkgDir) == Listing(walkDir(Join(pkgDir, "guides"), guides[Basename(pkgDir)]))
SrcListing(pkgDir) == Listing(walkDir(Join(pkgDir, "src"), src[Basename(pkgDir)]))

GuidesHashOf(pkgDir) ==
    computeGuidesHash(pkgDir, guides[Basename(pkgDir)], GuidesListing(pkgDir))
ApiHashOf(pkgDir) ==
    computeApiHash(pkgDir, src[Basename(pkgDir)], SrcListing(pkgDir), TypedocBasePath, typedocBase)

\* An error that is recorded while the loop goes on with the next package.
ThrowSwallowed(e) ==
    /\ err' = e
    /\ idx' = idx + 1
    /\ pc' = IF idx < Len(discovered) THEN "hash" ELSE "save"
    /\ UNCHANGED <<opts, discovered, cache, cur, log>>

\* The run rejects with error e; nothing else of the run state moves.
Throw(e) ==
    /\ pc' = "failed"
    /\ err' = e
    /\ UNCHANGED <<opts, discovered, idx, cache, cur, log>>

\* `continue` or the end of the loop body.
NextPackage ==
    /\ idx' = idx + 1
    /\ pc' = IF idx < Len(discovered) THEN "hash" ELSE "save"

\* Reading a file or a directory fails while hashing: the error propagates.
HashFail ==
    /\ pc = "hash"
    /\ Throw("io")
    /\ UNCHANGED <<envVars, outVars, cacheFile, histVars>>

\* Change detection per package instead of per category.
HashedWholePackage ==
    LET cached == Cached(cache, Pkg.baseName)
        g == GuidesHashOf(Pkg.pkgDir)
        a == ApiHashOf(Pkg.pkgDir)
        any == (g # cached.guidesHash) \/ (a # cached.apiHash)
    IN  [pkgDir |-> Pkg.pkgDir, baseName |-> Pkg.baseName, guidesHash |-> g, apiHash |-> a,
         guidesChanged |-> any, apiChanged |-> any]

Hashed ==
    LET cached == Cached(cache, Pkg.baseName)
        g == GuidesHashOf(Pkg.pkgDir)
        a == ApiHashOf(Pkg.pkgDir)
    IN  [pkgDir |-> Pkg.pkgDir, baseName |-> Pkg.baseName, guidesHash |-> g, apiHash |-> a,
         guidesChanged |-> (g # cached.guidesHash), apiChanged |-> (a # cached.apiHash)]

\* Both digests equal the cached ones: report and continue.
Unchanged ==
    /\ pc = "hash"
    /\ ~Hashed.guidesChanged /\ ~Hashed.apiChanged
    /\ cur' = Hashed
    /\ log' = Append(log, Line("Unchanged", Pkg.baseName))
    /\ NextPackage
    /\ ran' = {}
    /\ UNCHANGED <<opts, discovered, cache, err>>
    /\ UNCHANGED <<envVars, outVars, cacheFile>>
    /\ UNCHANGED <<acts, startCache, startFs, rerun, prior, seen, touched, now, edits>>

\* A loop that records the new digests in the in-memory cache as soon as it
\* has them, before the outputs are brought up to date.
ChangedAndUpdated ==
    /\ pc = "hash"
    /\ Hashed.guidesChanged \/ Hashed.apiChanged
    /\ cur' = Hashed
    /\ cache' = IF CanSetEntry(cache)
                THEN SetEntry(cache, Pkg.baseName, Entry(Hashed.guidesHash, Hashed.apiHash, now))
                ELSE cache
    /\ log' = Append(log, [msg |-> "Processing", pkg |-> Pkg.baseName, dir |-> Pkg.pkgDir])
    /\ pc' = "clean"
    /\ ran' = {}
    /\ UNCHANGED <<opts, discovered, idx, err>>
    /\ UNCHANGED <<envVars, outVars, cacheFile>>
    /\ UNCHANGED <<acts, startCache, startFs, rerun, prior, seen, touched, now, edits>>

\* A digest differs: the package is processed.
Changed ==
    /\ pc = "hash"
    /\ Hashed.guidesChanged \/ Hashed.apiChanged
    /\ cur' = Hashed
    /\ log' = Append(log, [msg |-> "Processing", pkg |-> Pkg.baseName, dir |-> Pkg.pkgDir])
    /\ pc' = "clean"
    /\ ran' = {}
    /\ UNCHANGED <<opts, discovered, idx, cache, err>>
    /\ UNCHANGED <<envVars, outVars, cacheFile>>
    /\ UNCHANGED <<acts, startCache, startFs, rerun, prior, seen, touched, now, edits>>

\* A clean that removes both directories of a package as soon as one of its
\* categories changed.
RmGuidesWholePackage == opts.clean /\ ~opts.dryRun /\ (cur.guidesChanged \/ cur.apiChanged)

\* line 136: fsp.rm(outGuides) runs
RmGuides == opts.clean /\ ~opts.dryRun /\ cur.guidesChanged
\* line 137: fsp.rm(outApi) runs
RmApi == opts.clean /\ ~opts.dryRun /\ cur.apiChanged

\* lines 131-139
Clean ==
    LET b == cur.baseName
        rmGuides == RmGuides
        rmApi == RmApi
        dryGuides == opts.clean /\ opts.dryRun /\ cur.guidesChanged
        dryApi == opts.clean /\ opts.dryRun /\ cur.apiChanged
    IN  /\ pc = "clean"
        /\ outGuides' = IF rmGuides THEN [outGuides EXCEPT ![b] = NoTree] ELSE outGuides
        /\ outApi' = IF rmApi THEN [outApi EXCEPT ![b] = NoApi] ELSE outApi
        /\ acts' = acts \o (IF rmGuides THEN <<Act("rm guides", b)>> ELSE <<>>)
                        \o (IF rmApi THEN <<Act("rm api", b)>> ELSE <<>>)
        /\ log' = log \o (IF dryGuides THEN <<Line("[dry-run] clean guides", b)>> ELSE <<>>)
                      \o (IF dryApi THEN <<Line("[dry-run] clean api", b)>> ELSE <<>>)
        /\ pc' = "guides"
        /\ UNCHANGED <<opts, discovered, idx, cache, cur, err>>
        /\ UNCHANGED <<envVars, packagesRoot, outLlms, cacheFile>>
        /\ UNCHANGED <<ran, startCache, startFs, rerun, prior, seen, touched, now, edits>>

(***************************************************************************)
(* guides.ts: copyGuides                                                   *)
(***************************************************************************)
\* A copy that makes the destination a mirror of the source.
CopyTreeMirror(from, to) == [exists |-> TRUE, files |-> from.files]

\* fsp.cp(src, dst, {recursive, force}): every source file lands at the
\* destination; destination files without a source counterpart stay.
CopyTree(from, to) ==
    [exists |-> TRUE,
     files |-> from.files \cup {f \in to.files : \A s \in from.files : s.rel # f.rel}]

\* lines 141-147, with copyGuides returning normally
Guides ==
    LET b == cur.baseName
        source == guides[Basename(cur.pkgDir)]
        copies == cur.guidesChanged /\ source.exists /\ ~opts.dryRun
    IN  /\ pc = "guides"
        /\ outGuides' = IF copies THEN [outGuides EXCEPT ![b] = CopyTree(source, @)]
                        ELSE outGuides
        /\ acts' = IF copies THEN Append(acts, Act("copy guides", b)) ELSE acts
        /\ ran' = IF cur.guidesChanged THEN ran \cup {"guides"} ELSE ran
        /\ log' = Append(log,
                    IF ~cur.guidesChanged THEN Line("Guides unchanged (skip copy)", b)
                    ELSE IF ~source.exists THEN Line("No guides found; skipping.", b)
                    ELSE IF opts.dryRun THEN Line("[dry-run] Copy guides", b)
                    ELSE Line("Copied guides", b))
        /\ pc' = "api"
        /\ UNCHANGED <<opts, discovered, idx, cache, cur, err>>
        /\ UNCHANGED <<envVars, packagesRoot, outApi, outLlms, cacheFile>>
        /\ seen' = IF cur.guidesChanged /\ ~opts.dryRun
                   THEN Called(seen, b, "guides", cur.guidesHash, TRUE) ELSE seen
        /\ UNCHANGED <<startCache, startFs, rerun, prior, touched, now, edits>>

\* fsp.cp rejects after fsp.mkdir(dst) has run.
GuidesFail ==
    LET b == cur.baseName
        source == guides[Basename(cur.pkgDir)]
    IN  /\ pc = "guides"
        /\ cur.guidesChanged /\ source.exists /\ ~opts.dryRun
        /\ outGuides' = [outGuides EXCEPT ![b] = [exists |-> TRUE, files |-> @.files]]
        /\ acts' = Append(acts, Act("mkdir guides", b))
        /\ ran' = ran \cup {"guides"}
        /\ Throw("cp")
        /\ UNCHANGED <<envVars, packagesRoot, outApi, outLlms, cacheFile>>
        /\ seen' = Called(seen, b, "guides", cur.guidesHash, FALSE)
        /\ UNCHANGED <<startCache, startFs, rerun, prior, touched, now, edits>>

(***************************************************************************)
(* runner.ts lines 149-176 and generateApiDocs                             *)
(***************************************************************************)
\* fileExists / fs.existsSync of a path inside a package directory.
PkgPathExists(d, rel) ==
    IF rel = <<"src">> THEN src[d].exists
    ELSE IF rel = <<"guides">> THEN guides[d].exists
    ELSE IF rel = <<"package.json">> THEN manifest[d] # ManifestMissing
    ELSE IF Head(rel) = "src" THEN \E f \in src[d].files : f.rel = Tail(rel)
    ELSE IF Head(rel) = "guides" THEN \E f \in guides[d].files : f.rel = Tail(rel)
    ELSE rel \in pkgFiles[d]

Defaults == << <<"src", "index.ts">>, <<"src", "main.ts">>, <<"index.ts">>, <<"lib", "index.ts">> >>

Found(d) == SelectSeq(Defaults, LAMBDA rel : PkgPathExists(d, rel))

EntryPoints(d) == IF Found(d) # <<>> THEN Found(d) ELSE << <<"src">> >>
EntryPointStrategy(d) == IF Found(d) # <<>> THEN "resolve" ELSE "expand"

\* hasDeclaredDeps(pkgDir) && !existsSync(node_modules)
NeedsDeps(d) == d \in deps /\ ~PkgPathExists(d, <<"node_modules">>)

\* entryPoints.filter(p => !fs.existsSync(p))
MissingEntryPoints(d) ==
    SelectSeq(EntryPoints(d), LAMBDA rel : ~PkgPathExists(d, rel))

\* What TypeDoc writes to outDir: markdown generated from the sources.
Generated(d) ==
    [exists |-> TRUE, md |-> TRUE, entryPoints |-> EntryPoints(d),
     strategy |-> EntryPointStrategy(d), of |-> src[d].files]

\* The API step with generateApiDocs returning normally (or skipped).
Api ==
    LET b == cur.baseName
        d == Basename(cur.pkgDir)
        runs == cur.apiChanged /\ ~opts.dryRun
        installs == runs /\ NeedsDeps(d)
    IN  /\ pc = "api"
        /\ cur.apiChanged => PkgPathExists(d, <<"package.json">>)
        /\ runs => MissingEntryPoints(d) = <<>>
        /\ pkgFiles' = IF installs THEN [pkgFiles EXCEPT ![d] = @ \cup {<<"node_modules">>}]
                       ELSE pkgFiles
        /\ outApi' = IF runs THEN [outApi EXCEPT ![b] = Generated(d)] ELSE outApi
        /\ acts' = acts \o (IF installs THEN <<Act("install", b)>> ELSE <<>>)
                        \o (IF runs THEN <<[ev |-> "typedoc", pkg |-> b,
                                              entryPoints |-> EntryPoints(d),
                                              strategy |-> EntryPointStrategy(d)]>>
                            ELSE <<>>)
        /\ ran' = IF cur.apiChanged THEN ran \cup {"api"} ELSE ran
        /\ log' = log \o
                    (IF ~cur.apiChanged THEN <<Line("API unchanged (skip TypeDoc)", b)>>
                     ELSE IF opts.dryRun
                     THEN <<[msg |-> "[dry-run] TypeDoc", pkg |-> b,
                             entryPoints |-> EntryPoints(d), strategy |-> EntryPointStrategy(d)]>>
                          \o (IF NeedsDeps(d)
                              THEN <<Line("[dry-run] install dependencies", b)>> ELSE <<>>)
                     ELSE <<Line("Generated API docs", b)>>)
        /\ pc' = "llms"
        /\ UNCHANGED <<opts, discovered, idx, cache, cur, err>>
        /\ UNCHANGED <<cwd, manifest, guides, src, deps, typedocBase>>
        /\ UNCHANGED <<packagesRoot, outGuides, outLlms, cacheFile>>
        /\ seen' = IF runs THEN Called(seen, b, "api", cur.apiHash, TRUE) ELSE seen
        /\ UNCHANGED <<startCache, startFs, rerun, prior, touched, now, edits>>

\* The dependency install exits non-zero, or TypeDoc fails to convert.
ApiFail(stage) ==
    LET b == cur.baseName
        d == Basename(cur.pkgDir)
        installed == stage = "typedoc" /\ NeedsDeps(d)
    IN  /\ pc = "api"
        /\ cur.apiChanged /\ ~opts.dryRun
        /\ stage = "install" => NeedsDeps(d)
        /\ stage = "typedoc" => MissingEntryPoints(d) = <<>>
        /\ pkgFiles' = IF installed THEN [pkgFiles EXCEPT ![d] = @ \cup {<<"node_modules">>}]
                       ELSE pkgFiles
        /\ acts' = IF installed THEN Append(acts, Act("install", b)) ELSE acts
        /\ ran' = ran \cup {"api"}
        /\ Throw(stage)
        /\ UNCHANGED <<cwd, manifest, guides, src, deps, typedocBase>>
        /\ UNCHANGED <<outVars, cacheFile>>
        /\ seen' = Called(seen, b, "api", cur.apiHash, FALSE)
        /\ UNCHANGED <<startCache, startFs, rerun, prior, touched, now, edits>>

\* An entry point does not exist: generateApiDocs throws after the install.
ApiMissingEntry ==
    LET b == cur.baseName
        d == Basename(cur.pkgDir)
    IN  /\ pc = "api"
        /\ cur.apiChanged /\ ~opts.dryRun
        /\ MissingEntryPoints(d) # <<>>
        /\ pkgFiles' = IF NeedsDeps(d) THEN [pkgFiles EXCEPT ![d] = @ \cup {<<"node_modules">>}]
                       ELSE pkgFiles
        /\ acts' = IF NeedsDeps(d) THEN Append(acts, Act("install", b)) ELSE acts
        /\ ran' = ran \cup {"api"}
        /\ Throw("Missing entry points")
        /\ UNCHANGED <<cwd, manifest, guides, src, deps, typedocBase>>
        /\ UNCHANGED <<outVars, cacheFile>>
        /\ seen' = Called(seen, b, "api", cur.apiHash, FALSE)
        /\ UNCHANGED <<startCache, startFs, rerun, prior, touched, now, edits>>

(***************************************************************************)
(* runner.ts lines 178-184 and llms.ts: generateLlmsOutputs                *)
(***************************************************************************)
\* The docs root: the output root once it holds API markdown, else the
\* package's guides directory.
DocsRoot(pkgDir, b) ==
    IF outApi[b].exists /\ outApi[b].md THEN OutRoot(b) ELSE Join(pkgDir, "guides")

\* A generator run that does not look for the docs root first.
DocsRootAssumed(pkgDir, b) == TRUE

\* line 46: fileExists(docsRoot)
DocsRootExists(pkgDir, b) ==
    IF outApi[b].exists /\ outApi[b].md THEN TRUE ELSE guides[Basename(pkgDir)].exists

\* What the generator reads under the docs root.
DocsUnder(pkgDir, b) ==
    IF outApi[b].exists /\ outApi[b].md
    THEN [g |-> outGuides[b].files, a |-> outApi[b].of]
    ELSE [g |-> guides[Basename(pkgDir)].files, a |-> {}]

\* A summary step that looks at the API category only.
LlmsWantedApiOnly == opts.generateLlms /\ cur.apiChanged

\* line 179: options.generateLlms && (guidesChanged || apiChanged)
LlmsWanted == opts.generateLlms /\ (cur.guidesChanged \/ cur.apiChanged)

Llms ==
    LET b == cur.baseName
        wanted == LlmsWanted
        generates == wanted /\ DocsRootExists(cur.pkgDir, b) /\ ~opts.dryRun
    IN  /\ pc = "llms"
        /\ outLlms' = IF generates
                      THEN [outLlms EXCEPT ![b] =
                              [exists |-> TRUE, docsRoot |-> DocsRoot(cur.pkgDir, b),
                               of |-> DocsUnder(cur.pkgDir, b)]]
                      ELSE outLlms
        /\ acts' = IF generates
                   THEN Append(acts, [ev |-> "llms", pkg |-> b, root |-> DocsRoot(cur.pkgDir, b),
                                      validateLinks |-> opts.hard])
                   ELSE acts
        /\ ran' = IF wanted THEN ran \cup {"llms"} ELSE ran
        /\ log' = log \o
                    (IF ~opts.generateLlms THEN <<>>
                     ELSE IF ~wanted THEN <<Line("LLMs unchanged (skip)", b)>>
                     ELSE IF ~DocsRootExists(cur.pkgDir, b)
                     THEN <<Line(IF opts.dryRun THEN "[dry-run] skip LLMs (no docs)"
                                 ELSE "Skipping LLMs generation (no docs directory)", b)>>
                     ELSE IF opts.dryRun
                     THEN <<[msg |-> "[dry-run] @orkestrel/llms-txt", pkg |-> b,
                             root |-> DocsRoot(cur.pkgDir, b), validateLinks |-> opts.hard]>>
                     ELSE <<Line("Generated LLMs text outputs", b)>>)
        /\ pc' = "update"
        /\ UNCHANGED <<opts, discovered, idx, cache, cur, err>>
        /\ UNCHANGED <<envVars, packagesRoot, outGuides, outApi, cacheFile>>
        /\ UNCHANGED <<startCache, startFs, rerun, prior, seen, touched, now, edits>>

\* generateAll rejects (a broken link under validation, an I/O error).
LlmsFail ==
    /\ pc = "llms"
    /\ LlmsWanted
    /\ DocsRootExists(cur.pkgDir, cur.baseName) /\ ~opts.dryRun
    /\ ran' = ran \cup {"llms"}
    /\ Throw("llms")
    /\ UNCHANGED <<envVars, outVars, cacheFile>>
    /\ UNCHANGED <<acts, startCache, startFs, rerun, prior, seen, touched, now, edits>>

(***************************************************************************)
(* runner.ts lines 186-196: cache update and save                          *)
(***************************************************************************)
\* A cache update that also writes the file after every package.
UpdateAndSave ==
    /\ pc = "update"
    /\ CanSetEntry(cache)
    /\ cache' = SetEntry(cache, cur.baseName, Entry(cur.guidesHash, cur.apiHash, now))
    /\ cacheFile' = IF opts.dryRun THEN cacheFile ELSE saveCache(cache')
    /\ NextPackage
    /\ ran' = {}
    /\ seen' = IF opts.dryRun THEN seen ELSE [seen EXCEPT !.any = @ \cup {cur.baseName}]
    /\ UNCHANGED <<opts, discovered, cur, err, log>>
    /\ UNCHANGED <<envVars, outVars>>
    /\ UNCHANGED <<acts, startCache, startFs, rerun, prior, touched, now, edits>>

Update ==
    /\ pc = "update"
    /\ CanSetEntry(cache)
    /\ cache' = SetEntry(cache, cur.baseName, Entry(cur.guidesHash, cur.apiHash, now))
    /\ NextPackage
    /\ ran' = {}
    /\ seen' = IF opts.dryRun THEN seen ELSE [seen EXCEPT !.any = @ \cup {cur.baseName}]
    /\ UNCHANGED <<opts, discovered, cur, err, log>>
    /\ UNCHANGED <<envVars, outVars, cacheFile>>
    /\ UNCHANGED <<acts, startCache, startFs, rerun, prior, touched, now, edits>>

\* cache.packages is a primitive: the assignment throws a TypeError.
UpdateThrow ==
    /\ pc = "update"
    /\ ~CanSetEntry(cache)
    /\ Throw("TypeError")
    /\ UNCHANGED <<envVars, outVars, cacheFile, histVars>>

\* A save that writes cache.json in a dry run too.
SaveAlways ==
    /\ pc = "save"
    /\ cacheFile' = saveCache(cache)
    /\ acts' = IF opts.dryRun THEN acts ELSE Append(acts, Act("write cache", ""))
    /\ log' = IF opts.dryRun THEN Append(log, Line("[dry-run] write cache", "")) ELSE log
    /\ pc' = "done"
    /\ seen' = IF opts.dryRun THEN seen
               ELSE [seen EXCEPT !.kept = @ \cup {log[i].pkg : i \in {j \in 1..Len(log) :
                                                        log[j].msg = "Processing"}}]
    /\ UNCHANGED <<opts, discovered, idx, cache, cur, err>>
    /\ UNCHANGED <<envVars, outVars>>
    /\ UNCHANGED <<ran, startCache, startFs, rerun, prior, touched, now, edits>>

Save ==
    /\ pc = "save"
    /\ cacheFile' = IF opts.dryRun THEN cacheFile ELSE saveCache(cache)
    /\ acts' = IF opts.dryRun THEN acts ELSE Append(acts, Act("write cache", ""))
    /\ log' = IF opts.dryRun THEN Append(log, Line("[dry-run] write cache", "")) ELSE log
    /\ pc' = "done"
    /\ seen' = IF opts.dryRun THEN seen
               ELSE [seen EXCEPT !.kept = @ \cup {log[i].pkg : i \in {j \in 1..Len(log) :
                                                        log[j].msg = "Processing"}}]
    /\ UNCHANGED <<opts, discovered, idx, cache, cur, err>>
    /\ UNCHANGED <<envVars, outVars>>
    /\ UNCHANGED <<ran, startCache, startFs, rerun, prior, touched, now, edits>>

(***************************************************************************)
(* The environment: package inputs are edited between runs.                *)
(***************************************************************************)
Fresh == ToString(edits + 1)

\* The packages whose inputs the environment edits.
Editable == {"core"}

Edits ==
    /\ pc \in {"done", "failed"}
    /\ edits < MaxEdits
    /\ edits' = edits + 1
    /\ touched' = TRUE
    /\ UNCHANGED <<cwd, manifest, pkgFiles, deps, outVars, cacheFile, runVars>>
    /\ UNCHANGED <<acts, ran, startCache, startFs, rerun, prior, seen, now>>

EditGuides(d) ==
    /\ Edits
    /\ guides' = [guides EXCEPT ![d] = CopyTree(OneFile("index.md", Fresh), @)]
    /\ UNCHANGED <<src, typedocBase>>

EditSrc(d) ==
    /\ Edits
    /\ src' = [src EXCEPT ![d] = CopyTree(OneFile("index.ts", Fresh), @)]
    /\ UNCHANGED <<guides, typedocBase>>

EditBase ==
    /\ Edits
    /\ typedocBase' = File(Fresh)
    /\ UNCHANGED <<guides, src>>

Next ==
    \/ \E o \in RunOptions : RunReject(o)
    \/ \E o \in RunOptions : RunDiscoverFail(o)
    \/ \E o \in RunOptions : RunNoPackages(o)
    \/ \E o \in RunOptions : RunLoad(o)
    \/ HashFail
    \/ Unchanged
    \/ Changed
    \/ Clean
    \/ Guides
    \/ GuidesFail
    \/ Api
    \/ \E stage \in {"install", "typedoc"} : ApiFail(stage)
    \/ ApiMissingEntry
    \/ Llms
    \/ LlmsFail
    \/ Update
    \/ UpdateThrow
    \/ Save
    \/ \E d \in Editable : EditGuides(d)
    \/ \E d \in Editable : EditSrc(d)
    \/ EditBase

Spec == Init /\ [][Next]_vars

(***************************************************************************)
(* loadCache on its own: one call on a cache.json of any shape.            *)
(***************************************************************************)
OtherEntry == Entry(Digest(<<DataChunk("no-guides")>>), Digest(<<DataChunk("no-typedoc-base")>>), 1)

\* The entry maps a cache.json can hold in the model.
EntryMaps ==
    UNION {[K -> {StaleEntry, OtherEntry}] : K \in SUBSET {"core", "validator", "legacy"}}

Versions == {"absent", "falsy", "1", "other"}

AllDocs ==
    {MissingDoc, GarbageDoc, NonObjectDoc}
    \cup {ObjectDoc(v, p, NoEntries) : v \in Versions, p \in {"absent", "falsy", "array", "prim"}}
    \cup {ObjectDoc(v, "map", e) : v \in Versions, e \in EntryMaps}

LoadInit ==
    /\ cwd = Cwd
    /\ manifest = Bare.manifest
    /\ guides = [d \in PkgDirNames |-> NoTree]
    /\ src = Bare.src
    /\ pkgFiles = [d \in PkgDirNames |-> {}]
    /\ deps = {}
    /\ typedocBase = NoFile
    /\ cacheFile \in AllDocs
    /\ packagesRoot = (cacheFile.file # "missing")
    /\ outGuides = [b \in BaseNames |-> NoTree]
    /\ outApi = [b \in BaseNames |-> NoApi]
    /\ outLlms = [b \in BaseNames |-> NoLlms]
    /\ pc = "idle"
    /\ opts = NoOptions
    /\ discovered = <<>>
    /\ idx = 0
    /\ cache = EmptyCache
    /\ cur = NoCur
    /\ err = ""
    /\ log = <<>>
    /\ acts = <<>>
    /\ ran = {}
    /\ startCache = cacheFile
    /\ startFs = <<manifest, guides, src, pkgFiles, typedocBase,
                   packagesRoot, outGuides, outApi, outLlms, cacheFile>>
    /\ rerun = FALSE
    /\ prior = NoPrior
    /\ seen = NoneSeen(cacheFile)
    /\ touched = FALSE
    /\ now = 0
    /\ edits = 0

\* const cache = await loadCache(cachePath): the value it resolves to, or
\* the error it rejects with.
Load ==
    /\ pc = "idle"
    /\ pc' = "loaded"
    /\ cache' = loadCache(cacheFile).value
    /\ err' = loadCache(cacheFile).error
    /\ UNCHANGED <<opts, discovered, idx, cur, log>>
    /\ UNCHANGED <<envVars, outVars, cacheFile, histVars>>

LoadNext == Load

LoadSpec == LoadInit /\ [][LoadNext]_vars

(***************************************************************************)
(* computeGuidesHash and computeApiHash on their own: a package is hashed, *)
(* one thing on disk is changed (or nothing), and it is hashed again.      *)
(***************************************************************************)
\* A workspace below a directory named build.
BuildCwd == <<"build", "orkestrel", "docs">>
HashCwds == {Cwd, BuildCwd}

PkgDirOf(d) == Join(Parent(cwd), d)

\* The paths, relative to src, a source file of the model can have.
SrcRels ==
    { <<"index.ts">>, <<"util.ts">>, <<"index.test.ts">>, <<"index.spec.ts">>,
      <<"dist", "index.ts">>, <<"lib", "build", "index.ts">>, <<"node_modules", "index.ts">> }

Tree(rels) == [exists |-> TRUE, files |-> {[rel |-> r, data |-> "0"] : r \in rels}]

\* No src, an empty src, one file, or index.ts and one more file.
HashSrcTrees ==
    {NoTree} \cup {Tree(rels) : rels \in {R \in SUBSET SrcRels :
                       Cardinality(R) <= 1 \/ (Cardinality(R) = 2 /\ <<"index.ts">> \in R)}}
HashGuidesTrees ==
    {NoTree, EmptyTree, Tree({<<"index.md">>}), Tree({<<"index.md">>, <<"lib", "index.md">>})}

HashInit ==
    /\ cwd \in HashCwds
    /\ manifest = Distinct.manifest
    /\ guides \in [PkgDirNames -> HashGuidesTrees]
    /\ guides["validator"] \in {NoTree, Tree({<<"index.md">>})}
    /\ src \in [PkgDirNames -> HashSrcTrees]
    /\ src["validator"] = Tree({<<"index.ts">>})
    /\ pkgFiles = [d \in PkgDirNames |-> {}]
    /\ deps = {}
    /\ typedocBase \in {NoFile, File("0")}
    /\ packagesRoot = FALSE
    /\ outGuides = [b \in BaseNames |-> NoTree]
    /\ outApi = [b \in BaseNames |-> NoApi]
    /\ outLlms = [b \in BaseNames |-> NoLlms]
    /\ cacheFile = MissingDoc
    /\ pc = "idle"
    /\ opts = NoOptions
    /\ discovered = <<>>
    /\ idx = 0
    /\ cache = EmptyCache
    /\ cur = NoCur
    /\ err = ""
    /\ log = <<>>
    /\ acts = <<>>
    /\ ran = {}
    /\ startCache = cacheFile
    /\ startFs = <<manifest, guides, src, pkgFiles, typedocBase,
                   packagesRoot, outGuides, outApi, outLlms, cacheFile>>
    /\ rerun = FALSE
    /\ prior = NoPrior
    /\ seen = NoneSeen(cacheFile)
    /\ touched = FALSE
    /\ now = 0
    /\ edits = 0

HashFrame ==
    UNCHANGED <<cwd, manifest, pkgFiles, deps, outVars, cacheFile, opts, discovered, idx, err,
                ran, startCache, startFs, rerun, prior, seen, touched, now, edits>>

\* What walkDir returned to one pair of hash calls.
Walked(lg, ls) == [ev |-> "walkDir", guides |-> lg, src |-> ls]

\* computeGuidesHash(pkgDir) and computeApiHash(pkgDir, typedocBasePath) for
\* both packages; the listing order of core's directories is any.
HashOnce ==
    /\ pc = "idle"
    /\ \E lg \in Listings(walkDir(Join(PkgDirOf("core"), "guides"), guides["core"])),
          ls \in Listings(walkDir(Join(PkgDirOf("core"), "src"), src["core"])) :
          /\ cache' = [EmptyCache EXCEPT !.entries =
                ("core" :> Entry(computeGuidesHash(PkgDirOf("core"), guides["core"], lg),
                                 computeApiHash(PkgDirOf("core"), src["core"], ls,
                                                TypedocBasePath, typedocBase), 0))
                @@ ("validator" :> Entry(GuidesHashOf(PkgDirOf("validator")),
                                         ApiHashOf(PkgDirOf("validator")), 0))]
          /\ acts' = <<Walked(lg, ls)>>
    /\ pc' = "hashed"
    /\ UNCHANGED <<guides, src, typedocBase, cur, log>>
    /\ HashFrame

\* The two hashes of core are computed again.
HashAgain ==
    /\ pc \in {"hashed", "edited"}
    /\ \E lg \in Listings(walkDir(Join(PkgDirOf("core"), "guides"), guides["core"])),
          ls \in Listings(walkDir(Join(PkgDirOf("core"), "src"), src["core"])) :
          /\ cur' = [NoCur EXCEPT
                !.pkgDir = PkgDirOf("core"), !.baseName = "core",
                !.guidesHash = computeGuidesHash(PkgDirOf("core"), guides["core"], lg),
                !.apiHash = computeApiHash(PkgDirOf("core"), src["core"], ls,
                                           TypedocBasePath, typedocBase)]
          /\ acts' = Append(acts, Walked(lg, ls))
    /\ pc' = "rehashed"
    /\ UNCHANGED <<guides, src, typedocBase, cache, log>>
    /\ HashFrame

\* One change on disk between the two calls, recorded in log.
Change(what, rel, to) ==
    /\ pc = "hashed"
    /\ pc' = "edited"
    /\ log' = <<[msg |-> what, rel |-> rel, to |-> to]>>
    /\ UNCHANGED <<cache, cur, acts>>
    /\ HashFrame

Rewrite(tree, f) == [tree EXCEPT !.files = (@ \ {f}) \cup {[rel |-> f.rel, data |-> "1"]}]

TouchGuide(f) ==
    /\ f \in guides["core"].files
    /\ Change("touch guides", f.rel, f.rel)
    /\ guides' = [guides EXCEPT !["core"] = Rewrite(@, f)]
    /\ UNCHANGED <<src, typedocBase>>

TouchSrc(f) ==
    /\ f \in src["core"].files
    /\ Change("touch src", f.rel, f.rel)
    /\ src' = [src EXCEPT !["core"] = Rewrite(@, f)]
    /\ UNCHANGED <<guides, typedocBase>>

AddSrc(rel) ==
    /\ src["core"].exists
    /\ \A f \in src["core"].files : f.rel # rel
    /\ Change("add src", rel, rel)
    /\ src' = [src EXCEPT !["core"].files = @ \cup {[rel |-> rel, data |-> "0"]}]
    /\ UNCHANGED <<guides, typedocBase>>

RemoveSrc(f) ==
    /\ f \in src["core"].files
    /\ Change("remove src", f.rel, f.rel)
    /\ src' = [src EXCEPT !["core"].files = @ \ {f}]
    /\ UNCHANGED <<guides, typedocBase>>

\* A file gets another name in its directory.
RenameSrc(f, rel) ==
    /\ f \in src["core"].files
    /\ Parent(rel) = Parent(f.rel)
    /\ \A g \in src["core"].files : g.rel # rel
    /\ Change("rename src", f.rel, rel)
    /\ src' = [src EXCEPT !["core"].files = (@ \ {f}) \cup {[rel |-> rel, data |-> f.data]}]
    /\ UNCHANGED <<guides, typedocBase>>

TouchBase ==
    /\ typedocBase.exists
    /\ Change("touch base", <<>>, <<>>)
    /\ typedocBase' = File("1")
    /\ UNCHANGED <<guides, src>>

HashNext ==
    \/ HashOnce
    \/ HashAgain
    \/ \E f \in guides["core"].files : TouchGuide(f)
    \/ \E f \in src["core"].files : TouchSrc(f)
    \/ \E rel \in SrcRels : AddSrc(rel)
    \/ \E f \in src["core"].files : RemoveSrc(f)
    \/ \E f \in src["core"].files, rel \in SrcRels : RenameSrc(f, rel)
    \/ TouchBase

HashSpec == HashInit /\ [][HashNext]_vars

(***************************************************************************)
(* Discovery on its own: runSync up to line 98, started in workspaces at   *)
(* several locations, with every kind of manifest and every filter.        *)
(***************************************************************************)
\* The workspace below a directory whose name contains a package's name.
CoreTeamCwd == <<"core-team", "orkestrel", "docs">>
\* The tool started from a sibling directory that is not named docs.
CoreCwd == <<"w", "orkestrel", "core">>
DiscoverCwds == {Cwd, CoreTeamCwd, CoreCwd, ForeignCwd}

DiscoverManifests ==
    { mf \in [DirNames -> Manifests] :
        /\ mf["core"] \in {ManifestMissing, ManifestUnparsable, ManifestNoName,
                           ManifestNumericName, "", "@orkestrel/core"}
        /\ mf["validator"] \in {ManifestUnparsable, ManifestNoName, "validator", "@acme/core"}
        /\ mf["docs"] \in {ManifestMissing, "@orkestrel/docs"} }

DiscoverOptions == {o \in SyncOptions : ~o.clean /\ ~o.hard /\ ~o.generateLlms}

DiscoverInit ==
    /\ cwd \in DiscoverCwds
    /\ manifest \in DiscoverManifests
    /\ guides = [d \in PkgDirNames |-> NoTree]
    /\ src = [d \in PkgDirNames |-> NoTree]
    /\ pkgFiles = [d \in PkgDirNames |-> {}]
    /\ deps = {}
    /\ typedocBase = NoFile
    /\ packagesRoot = FALSE
    /\ outGuides = [b \in BaseNames |-> NoTree]
    /\ outApi = [b \in BaseNames |-> NoApi]
    /\ outLlms = [b \in BaseNames |-> NoLlms]
    /\ cacheFile = MissingDoc
    /\ pc = "idle"
    /\ opts = NoOptions
    /\ discovered = <<>>
    /\ idx = 0
    /\ cache = EmptyCache
    /\ cur = NoCur
    /\ err = ""
    /\ log = <<>>
    /\ acts = <<>>
    /\ ran = {}
    /\ startCache = cacheFile
    /\ startFs = <<manifest, guides, src, pkgFiles, typedocBase,
                   packagesRoot, outGuides, outApi, outLlms, cacheFile>>
    /\ rerun = FALSE
    /\ prior = NoPrior
    /\ seen = NoneSeen(cacheFile)
    /\ touched = FALSE
    /\ now = 0
    /\ edits = 0

DiscoverNext ==
    \/ \E o \in DiscoverOptions : RunReject(o)
    \/ \E o \in DiscoverOptions : RunDiscoverFail(o)
    \/ \E o \in DiscoverOptions : RunNoPackages(o)
    \/ \E o \in DiscoverOptions : RunLoad(o)

DiscoverSpec == DiscoverInit /\ [][DiscoverNext]_vars

(***************************************************************************)
(* saveCache on its own: fsp.writeFile opens the file for writing, which   *)
(* creates or truncates it, then writes the serialised cache; the process  *)
(* can die between the two.                                                *)
(***************************************************************************)
\* The documents cache.json holds before the save.
SaveDocs == {MissingDoc} \cup {ObjectDoc("1", "map", e) : e \in EntryMaps}

\* The caches that are saved.
SaveCaches == {CacheValue("1", "map", e) : e \in EntryMaps}

\* The file right after it was opened with flag 'w': empty.
Truncated == GarbageDoc

SaveInit ==
    /\ cwd = Cwd
    /\ manifest = Bare.manifest
    /\ guides = [d \in PkgDirNames |-> NoTree]
    /\ src = Bare.src
    /\ pkgFiles = [d \in PkgDirNames |-> {}]
    /\ deps = {}
    /\ typedocBase = NoFile
    /\ cacheFile \in SaveDocs
    /\ packagesRoot \in BOOLEAN
    /\ ~packagesRoot => cacheFile = MissingDoc
    /\ outGuides = [b \in BaseNames |-> NoTree]
    /\ outApi = [b \in BaseNames |-> NoApi]
    /\ outLlms = [b \in BaseNames |-> NoLlms]
    /\ pc = "idle"
    /\ opts = NoOptions
    /\ discovered = <<>>
    /\ idx = 0
    /\ cache \in SaveCaches
    /\ cur = NoCur
    /\ err = ""
    /\ log = <<>>
    /\ acts = <<>>
    /\ ran = {}
    /\ startCache = cacheFile
    /\ startFs = <<manifest, guides, src, pkgFiles, typedocBase,
                   packagesRoot, outGuides, outApi, outLlms, cacheFile>>
    /\ rerun = FALSE
    /\ prior = NoPrior
    /\ seen = NoneSeen(cacheFile)
    /\ touched = FALSE
    /\ now = 0
    /\ edits = 0

SaveFrame ==
    /\ UNCHANGED <<opts, discovered, idx, cache, cur, log>>
    /\ UNCHANGED <<envVars, outVars, histVars>>

\* The directory of cache.json does not exist: writeFile rejects.
SaveOpenFail ==
    /\ pc = "idle"
    /\ ~packagesRoot
    /\ pc' = "failed"
    /\ err' = "ENOENT"
    /\ UNCHANGED cacheFile
    /\ SaveFrame

\* writeFile opens cache.json: the file exists and is empty.
SaveOpen ==
    /\ pc = "idle"
    /\ packagesRoot
    /\ pc' = "writing"
    /\ cacheFile' = Truncated
    /\ UNCHANGED err
    /\ SaveFrame

\* The serialised cache is written and the file closed.
SaveWrite ==
    /\ pc = "writing"
    /\ pc' = "saved"
    /\ cacheFile' = saveCache(cache)
    /\ UNCHANGED err
    /\ SaveFrame

\* The process dies before or during the save.
SaveCrash ==
    /\ pc \in {"idle", "writing"}
    /\ pc' = "crashed"
    /\ UNCHANGED <<cacheFile, err>>
    /\ SaveFrame

SaveNext == SaveOpenFail \/ SaveOpen \/ SaveWrite \/ SaveCrash

SaveSpec == SaveInit /\ [][SaveNext]_vars

(***************************************************************************)
(* The adapters on their own: the loop body from line 141 on, for a        *)
(* package whose guides differ from the cache and whose sources do not,    *)
(* over every state of its guides and of its output directory.             *)
(***************************************************************************)
GuideRels == {<<"index.md">>, <<"lib", "index.md">>}

\* The guides of the package: none, an empty directory, or new files.
SourceGuides ==
    {NoTree, EmptyTree}
    \cup {[exists |-> TRUE, files |-> {[rel |-> r, data |-> "1"] : r \in R}] :
            R \in SUBSET GuideRels \ {{}}}

\* The guides output left by earlier runs: none, or older files, among
\* them one the package no longer has.
DestGuides == {NoTree} \cup {Tree(R) : R \in SUBSET (GuideRels \cup {<<"main.ts">>})}

\* The API output left by earlier runs: none, markdown, or a directory
\* without markdown.
DestApis ==
    {NoApi,
     [exists |-> TRUE, md |-> TRUE, entryPoints |-> << <<"src", "index.ts">> >>,
      strategy |-> "resolve", of |-> {[rel |-> <<"index.ts">>, data |-> "0"]}],
     [exists |-> TRUE, md |-> FALSE, entryPoints |-> <<>>, strategy |-> "", of |-> {}]}

AdapterOptions == {o \in RunOptions : o.exclude = <<>> /\ ~o.clean}

AdapterInit ==
    /\ cwd = Cwd
    /\ manifest = Distinct.manifest
    /\ guides \in [PkgDirNames -> SourceGuides]
    /\ guides["validator"] = NoTree
    /\ src = Distinct.src
    /\ pkgFiles = [d \in PkgDirNames |-> {}]
    /\ deps = {}
    /\ typedocBase = File("0")
    /\ packagesRoot = TRUE
    /\ outGuides \in [BaseNames -> DestGuides]
    /\ \A b \in BaseNames \ {"core"} : outGuides[b] = NoTree
    /\ outApi \in [BaseNames -> DestApis]
    /\ \A b \in BaseNames \ {"core"} : outApi[b] = NoApi
    /\ outLlms = [b \in BaseNames |-> NoLlms]
    /\ cacheFile = MissingDoc
    /\ pc = "guides"
    /\ opts \in AdapterOptions
    /\ discovered = <<[pkgDir |-> Join(WorkspaceDir, "core"), baseName |-> "core"]>>
    /\ idx = 1
    /\ cache = EmptyCache
    /\ cur = [pkgDir |-> Join(WorkspaceDir, "core"), baseName |-> "core",
              guidesHash |-> GuidesHashOf(Join(WorkspaceDir, "core")),
              apiHash |-> ApiHashOf(Join(WorkspaceDir, "core")),
              guidesChanged |-> TRUE, apiChanged |-> FALSE]
    /\ err = ""
    /\ log = <<>>
    /\ acts = <<>>
    /\ ran = {}
    /\ startCache = cacheFile
    /\ startFs = <<manifest, guides, src, pkgFiles, typedocBase,
                   packagesRoot, outGuides, outApi, outLlms, cacheFile>>
    /\ rerun = FALSE
    /\ prior = NoPrior
    /\ seen = NoneSeen(cacheFile)
    /\ touched = FALSE
    /\ now = 1
    /\ edits = 0

AdapterNext == Guides \/ GuidesFail \/ Api \/ Llms \/ LlmsFail

AdapterSpec == AdapterInit /\ [][AdapterNext]_vars

(***************************************************************************)
(* generateApiDocs on its own (part_011 lines 55-138), called with the     *)
(* options the runner never passes: explicit entry points, autoInstallDeps *)
(* off, a package directory without a manifest.  In this specification     *)
(* opts holds the GenerateApiOptions of the call.                          *)
(***************************************************************************)
ApiPkg == "core"

ApiEntryLists ==
    {<<>>, << <<"src", "index.ts">> >>, << <<"src", "index.ts">>, <<"src", "missing.ts">> >>}

GenerateApiOptions ==
    [pkgDir : {Join(WorkspaceDir, ApiPkg)},
     entryPoints : ApiEntryLists,
     entryPointStrategy : {"resolve"},
     dryRun : BOOLEAN,
     autoInstallDeps : BOOLEAN]

\* A preflight that is skipped in a dry run.
ManifestAbsentUnlessDry(d) == ~opts.dryRun /\ ~PkgPathExists(d, <<"package.json">>)

\* line 70: !fs.existsSync(path.join(pkgDir, 'package.json'))
ManifestAbsent(d) == ~PkgPathExists(d, <<"package.json">>)

\* line 101: entryPoints.filter(p => !fs.existsSync(p))
MissingOf(d, entryPoints) == SelectSeq(entryPoints, LAMBDA rel : ~PkgPathExists(d, rel))

\* lines 119-131: what TypeDoc writes for the entry points it was given.
GeneratedFrom(d, entryPoints, strategy) ==
    [exists |-> TRUE, md |-> TRUE, entryPoints |-> entryPoints,
     strategy |-> strategy, of |-> src[d].files]

ApiInit ==
    /\ cwd = Cwd
    /\ manifest \in [PkgDirNames -> {ManifestMissing, Distinct.manifest[ApiPkg]}]
    /\ \A d \in PkgDirNames \ {ApiPkg} : manifest[d] = ManifestMissing
    /\ guides = [d \in PkgDirNames |-> NoTree]
    /\ src \in [PkgDirNames -> {NoTree, Tree({<<"index.ts">>}), Tree({<<"index.ts">>, <<"main.ts">>})}]
    /\ \A d \in PkgDirNames \ {ApiPkg} : src[d] = NoTree
    /\ pkgFiles \in [PkgDirNames -> {{}, {<<"node_modules">>}}]
    /\ \A d \in PkgDirNames \ {ApiPkg} : pkgFiles[d] = {}
    /\ deps \in {{}, {ApiPkg}}
    /\ typedocBase = File("0")
    /\ packagesRoot = TRUE
    /\ outGuides = [b \in BaseNames |-> NoTree]
    /\ outApi \in [BaseNames -> DestApis]
    /\ \A b \in BaseNames \ {ApiPkg} : outApi[b] = NoApi
    /\ outLlms = [b \in BaseNames |-> NoLlms]
    /\ cacheFile = MissingDoc
    /\ pc = "api"
    /\ opts \in GenerateApiOptions
    /\ discovered = <<>>
    /\ idx = 0
    /\ cache = EmptyCache
    /\ cur = NoCur
    /\ err = ""
    /\ log = <<>>
    /\ acts = <<>>
    /\ ran = {}
    /\ startCache = cacheFile
    /\ startFs = <<manifest, guides, src, pkgFiles, typedocBase,
                   packagesRoot, outGuides, outApi, outLlms, cacheFile>>
    /\ rerun = FALSE
    /\ prior = NoPrior
    /\ seen = NoneSeen(cacheFile)
    /\ touched = FALSE
    /\ now = 1
    /\ edits = 0

ApiFrame ==
    /\ UNCHANGED <<opts, discovered, idx, cache, cur>>
    /\ UNCHANGED <<cwd, manifest, guides, src, deps, typedocBase>>
    /\ UNCHANGED <<packagesRoot, outGuides, outLlms, cacheFile>>
    /\ UNCHANGED <<ran, startCache, startFs, rerun, prior, seen, touched, now, edits>>

\* generateApiDocs(opts) with the install and TypeDoc succeeding: it
\* returns, or throws one of its three precondition errors.
GenerateApiDocs ==
    LET d == Basename(opts.pkgDir)
        needsDeps == NeedsDeps(d)
        missing == MissingOf(d, opts.entryPoints)
        installs == ~opts.dryRun /\ ~ManifestAbsent(d) /\ needsDeps /\ opts.autoInstallDeps
        throws == IF ManifestAbsent(d) THEN "Missing package.json"
                  ELSE IF opts.dryRun THEN ""
                  ELSE IF needsDeps /\ ~opts.autoInstallDeps THEN "Dependencies not installed"
                  ELSE IF missing # <<>> THEN "Missing entry points"
                  ELSE ""
        generates == ~opts.dryRun /\ throws = ""
    IN  /\ pc = "api"
        /\ pkgFiles' = IF installs THEN [pkgFiles EXCEPT ![d] = @ \cup {<<"node_modules">>}]
                       ELSE pkgFiles
        /\ outApi' = IF generates
                     THEN [outApi EXCEPT ![d] =
                             GeneratedFrom(d, opts.entryPoints, opts.entryPointStrategy)]
                     ELSE outApi
        /\ acts' = acts \o (IF installs THEN <<Act("install", d)>> ELSE <<>>)
                        \o (IF generates
                            THEN <<[ev |-> "typedoc", pkg |-> d,
                                    entryPoints |-> opts.entryPoints,
                                    strategy |-> opts.entryPointStrategy]>>
                            ELSE <<>>)
        /\ log' = log \o
                    (IF ManifestAbsent(d) THEN <<>>
                     ELSE IF opts.dryRun
                     THEN <<[msg |-> "[dry-run] TypeDoc", pkg |-> d,
                             entryPoints |-> opts.entryPoints,
                             strategy |-> opts.entryPointStrategy]>>
                          \o (IF ~needsDeps THEN <<>>
                              ELSE IF opts.autoInstallDeps
                              THEN <<Line("[dry-run] install dependencies", d)>>
                              ELSE <<Line("[dry-run] missing dependencies", d)>>)
                     ELSE IF generates THEN <<Line("Generated API docs", d)>>
                     ELSE <<>>)
        /\ err' = throws
        /\ pc' = IF throws = "" THEN "returned" ELSE "failed"
        /\ ApiFrame

\* The dependency install exits non-zero, or TypeDoc fails to convert.
GenerateApiDocsFail(stage) ==
    LET d == Basename(opts.pkgDir)
        installed == stage = "typedoc" /\ NeedsDeps(d)
    IN  /\ pc = "api"
        /\ ~ManifestAbsent(d) /\ ~opts.dryRun
        /\ NeedsDeps(d) => opts.autoInstallDeps
        /\ stage = "install" => NeedsDeps(d)
        /\ stage = "typedoc" => MissingOf(d, opts.entryPoints) = <<>>
        /\ pkgFiles' = IF installed THEN [pkgFiles EXCEPT ![d] = @ \cup {<<"node_modules">>}]
                       ELSE pkgFiles
        /\ acts' = IF installed THEN Append(acts, Act("install", d)) ELSE acts
        /\ err' = stage
        /\ pc' = "failed"
        /\ UNCHANGED <<outApi, log>>
        /\ ApiFrame

ApiNext ==
    \/ GenerateApiDocs
    \/ \E stage \in {"install", "typedoc"} : GenerateApiDocsFail(stage)

ApiSpec == ApiInit /\ [][ApiNext]_vars

(***************************************************************************)
(* generateLlmsOutputs on its own (llms.ts lines 28-81), called with the   *)
(* pass-through options the runner never sets.  In this specification opts *)
(* holds the LlmsOptions of the call; an optional value that was not       *)
(* given is "undefined".                                                   *)
(***************************************************************************)
LlmsPkg == "core"

Optional(values) == {"undefined"} \cup values

LlmsOptions ==
    [pkgDir : {Join(WorkspaceDir, LlmsPkg)},
     hard : BOOLEAN,
     dryRun : BOOLEAN,
     validateLinks : Optional({"false", "true"}),
     concurrency : Optional({"2"})]

\* JavaScript truthiness of an optional boolean.
Truthy(v) == v = "true"

\* A generator call that forwards the caller's validateLinks as it is.
ValidateLinksPassed(hard, passed) == passed

\* line 71: validateLinks: hard ? true : passThrough.validateLinks
ValidateLinks(hard, passed) == IF hard THEN "true" ELSE passed

\* line 60: if (hard || passThrough.validateLinks) parts.push('validateLinks')
ReportsValidateLinks(hard, passed) == hard \/ Truthy(passed)

\* lines 67-72: the options generateAll is called with.
GenerateAllOptions(b) ==
    [ev |-> "llms", pkg |-> b, root |-> DocsRoot(opts.pkgDir, b),
     validateLinks |-> ValidateLinks(opts.hard, opts.validateLinks),
     concurrency |-> opts.concurrency]

LlmsInit ==
    /\ cwd = Cwd
    /\ manifest = Distinct.manifest
    /\ guides \in [PkgDirNames -> {NoTree, EmptyTree, Tree({<<"index.md">>})}]
    /\ \A d \in PkgDirNames \ {LlmsPkg} : guides[d] = NoTree
    /\ src = Distinct.src
    /\ pkgFiles = [d \in PkgDirNames |-> {}]
    /\ deps = {}
    /\ typedocBase = File("0")
    /\ packagesRoot = TRUE
    /\ outGuides = [b \in BaseNames |-> NoTree]
    /\ outApi \in [BaseNames -> DestApis]
    /\ \A b \in BaseNames \ {LlmsPkg} : outApi[b] = NoApi
    /\ outLlms = [b \in BaseNames |-> NoLlms]
    /\ cacheFile = MissingDoc
    /\ pc = "llms"
    /\ opts \in LlmsOptions
    /\ discovered = <<>>
    /\ idx = 0
    /\ cache = EmptyCache
    /\ cur = NoCur
    /\ err = ""
    /\ log = <<>>
    /\ acts = <<>>
    /\ ran = {}
    /\ startCache = cacheFile
    /\ startFs = <<manifest, guides, src, pkgFiles, typedocBase,
                   packagesRoot, outGuides, outApi, outLlms, cacheFile>>
    /\ rerun = FALSE
    /\ prior = NoPrior
    /\ seen = NoneSeen(cacheFile)
    /\ touched = FALSE
    /\ now = 1
    /\ edits = 0

LlmsFrame ==
    /\ UNCHANGED <<opts, discovered, idx, cache, cur>>
    /\ UNCHANGED <<envVars, packagesRoot, outGuides, outApi, cacheFile>>
    /\ UNCHANGED <<ran, startCache, startFs, rerun, prior, seen, touched, now, edits>>

\* generateLlmsOutputs(opts) returning normally.  The generator writes
\* its two files at the root of outDir, where normalizeLlmsOutputs
\* leaves them.
GenerateLlmsOutputs ==
    LET b == LlmsPkg
        hasRoot == DocsRootExists(opts.pkgDir, b)
        generates == hasRoot /\ ~opts.dryRun
    IN  /\ pc = "llms"
        /\ outLlms' = IF generates
                      THEN [outLlms EXCEPT ![b] =
                              [exists |-> TRUE, docsRoot |-> DocsRoot(opts.pkgDir, b),
                               of |-> DocsUnder(opts.pkgDir, b)]]
                      ELSE outLlms
        /\ acts' = IF generates THEN Append(acts, GenerateAllOptions(b)) ELSE acts
        /\ log' = Append(log,
                    IF ~hasRoot
                    THEN Line(IF opts.dryRun THEN "[dry-run] skip LLMs (no docs)"
                              ELSE "Skipping LLMs generation (no docs directory)", b)
                    ELSE IF opts.dryRun
                    THEN [msg |-> "[dry-run] @orkestrel/llms-txt", pkg |-> b,
                          root |-> DocsRoot(opts.pkgDir, b),
                          validateLinks |->
                              ReportsValidateLinks(opts.hard, opts.validateLinks),
                          concurrency |-> opts.concurrency]
                    ELSE Line("Generated LLMs text outputs", b))
        /\ pc' = "returned"
        /\ err' = ""
        /\ LlmsFrame

\* generateAll was called and rejects (a broken link under validation, an
\* I/O error).
GenerateLlmsOutputsFail ==
    LET b == LlmsPkg
    IN  /\ pc = "llms"
        /\ DocsRootExists(opts.pkgDir, b) /\ ~opts.dryRun
        /\ acts' = Append(acts, GenerateAllOptions(b))
        /\ err' = "llms"
        /\ pc' = "failed"
        /\ UNCHANGED <<outLlms, log>>
        /\ LlmsFrame

LlmsNext == GenerateLlmsOutputs \/ GenerateLlmsOutputsFail

LlmsSpec == LlmsInit /\ [][LlmsNext]_vars

(***************************************************************************)
(* normalizeLlmsOutputs on its own (helpers.ts lines 236-274), applied up  *)
(* to MaxNormalize times to one output directory.  In this specification   *)
(* outLlms[NormPkg] is the output directory as a tree of files, opts holds *)
(* the expected file names, and acts records each application.             *)
(***************************************************************************)
NormPkg == "core"

\* Number of applications of normalizeLlmsOutputs to the directory.
MaxNormalize == 2

\* line 238 and llms.ts lines 75-78: the expected names.
ExpectedNames == {<<"llms.txt", "llms-full.txt">>, <<"llms.txt">>, <<"llms-full.txt", "llms.txt">>}

\* What the generator and earlier runs may have left under outDir.
OutFiles ==
    {[rel |-> <<"llms.txt">>, data |-> "0"],
     [rel |-> <<"deep", "llms.txt">>, data |-> "1"],
     [rel |-> <<"other", "more", "llms.txt">>, data |-> "2"],
     [rel |-> <<"llms-full.txt">>, data |-> "0"],
     [rel |-> <<"deep", "llms-full.txt">>, data |-> "1"],
     [rel |-> <<"api", "index.md">>, data |-> "0"],
     [rel |-> <<"guides", "llms.txt">>, data |-> "3"]}

OutTrees == {NoTree} \cup {[exists |-> TRUE, files |-> F] : F \in SUBSET OutFiles}

\* line 243: fileExists(rootTarget)
RootExists(tree, name) == \E f \in tree.files : f.rel = <<name>>

\* line 248: the files walkDir(outDir) lists whose basename is the name.
\* The root target is absent when the search runs; readdir's order decides
\* which of several files find() returns.
FoundPaths(tree, name) == {f \in tree.files : Basename(f.rel) = name}

\* lines 261-272: rename; on failure copyFile then unlink; on failure of
\* those, nothing.
MoveOutcomes == {"renamed", "copied and unlinked", "copied", "left"}

\* A relocation that replaces what is at the root.
NormalizeNameClobber(tree, name, found, outcome) ==
    IF FoundPaths(tree, name) \ {[rel |-> <<name>>, data |-> "0"]} = {} THEN tree
    ELSE [exists |-> TRUE,
          files |-> {f \in tree.files : Basename(f.rel) # name}
                    \cup {[rel |-> <<name>>, data |-> found.data]}]

\* A relocation that removes the file it found before it knows that the
\* copy is in place.
NormalizeNameUnlinkFirst(tree, name, found, outcome) ==
    IF RootExists(tree, name) THEN tree
    ELSE IF FoundPaths(tree, name) = {} THEN tree
    ELSE IF outcome = "left" THEN [tree EXCEPT !.files = @ \ {found}]
    ELSE [tree EXCEPT !.files = (@ \ {found}) \cup {[rel |-> <<name>>, data |-> found.data]}]

\* lines 242-272: one iteration of the loop.
NormalizeName(tree, name, found, outcome) ==
    IF RootExists(tree, name) THEN tree
    ELSE IF FoundPaths(tree, name) = {} THEN tree
    ELSE IF outcome \in {"renamed", "copied and unlinked"}
    THEN [tree EXCEPT !.files = (@ \ {found}) \cup {[rel |-> <<name>>, data |-> found.data]}]
    ELSE IF outcome = "copied"
    THEN [tree EXCEPT !.files = @ \cup {[rel |-> <<name>>, data |-> found.data]}]
    ELSE tree

\* lines 240-273: mkdir -p, then the loop over the names.
RECURSIVE NormalizeFrom(_, _, _, _)
NormalizeFrom(tree, names, i, choice) ==
    IF i > Len(names) THEN tree
    ELSE NormalizeFrom(NormalizeName(tree, names[i], choice[i].found, choice[i].outcome),
                       names, i + 1, choice)

normalizeLlmsOutputs(tree, names, choice) ==
    NormalizeFrom([tree EXCEPT !.exists = TRUE], names, 1, choice)

\* What the environment decides in one application: per name, the file
\* the search returns and how the move ends.  Where no move is attempted
\* there is nothing to decide.
NoMove == [found |-> [rel |-> <<>>, data |-> ""], outcome |-> "none"]

Choices(tree, names) ==
    {c \in [1..Len(names) -> [found : OutFiles, outcome : MoveOutcomes] \cup {NoMove}] :
        \A i \in 1..Len(names) :
            IF RootExists(tree, names[i]) \/ FoundPaths(tree, names[i]) = {}
            THEN c[i] = NoMove
            ELSE c[i] # NoMove /\ c[i].found \in FoundPaths(tree, names[i])}

NormalizeInit ==
    /\ cwd = Cwd
    /\ manifest = Distinct.manifest
    /\ guides = [d \in PkgDirNames |-> NoTree]
    /\ src = Distinct.src
    /\ pkgFiles = [d \in PkgDirNames |-> {}]
    /\ deps = {}
    /\ typedocBase = File("0")
    /\ packagesRoot = TRUE
    /\ outGuides = [b \in BaseNames |-> NoTree]
    /\ outApi = [b \in BaseNames |-> NoApi]
    /\ outLlms \in [BaseNames -> OutTrees]
    /\ \A b \in BaseNames \ {NormPkg} : outLlms[b] = NoTree
    /\ cacheFile = MissingDoc
    /\ pc = "normalize"
    /\ opts \in [files : ExpectedNames]
    /\ discovered = <<>>
    /\ idx = 0
    /\ cache = EmptyCache
    /\ cur = NoCur
    /\ err = ""
    /\ log = <<>>
    /\ acts = <<>>
    /\ ran = {}
    /\ startCache = cacheFile
    /\ startFs = <<manifest, guides, src, pkgFiles, typedocBase,
                   packagesRoot, outGuides, outApi, outLlms, cacheFile>>
    /\ rerun = FALSE
    /\ prior = NoPrior
    /\ seen = NoneSeen(cacheFile)
    /\ touched = FALSE
    /\ now = 1
    /\ edits = 0

\* One call of normalizeLlmsOutputs(outDir, files); it always returns.
Normalize ==
    /\ pc = "normalize"
    /\ Len(acts) < MaxNormalize
    /\ \E c \in Choices(outLlms[NormPkg], opts.files) :
          /\ outLlms' = [outLlms EXCEPT ![NormPkg] = normalizeLlmsOutputs(@, opts.files, c)]
          /\ acts' = Append(acts, [ev |-> "normalize", pkg |-> NormPkg,
                                    before |-> outLlms[NormPkg],
                                    after |-> outLlms'[NormPkg],
                                    choice |-> c])
    /\ UNCHANGED <<pc, err, log, opts, discovered, idx, cache, cur>>
    /\ UNCHANGED <<envVars, packagesRoot, outGuides, outApi, cacheFile>>
    /\ UNCHANGED <<ran, startCache, startFs, rerun, prior, seen, touched, now, edits>>

NormalizeNext == Normalize

NormalizeSpec == NormalizeInit /\ [][NormalizeNext]_vars

(***************************************************************************)
(* cli.ts: the command line.  In this specification opts holds the         *)
(* arguments, cur the options handed to runSync, log the lines written     *)
(* with their stream, and acts the exit of the process.  runSync is its    *)
(* outcome: it resolves, or rejects with one of the errors of a run.       *)
(***************************************************************************)
\* The command lines: positionals, and the flags given.  unknown is a flag
\* parseArgs has no option for.
CliArgs ==
    [positionals : {<<>>, <<"sync">>, <<"bogus">>, <<"sync", "bogus">>},
     help : BOOLEAN, unknown : BOOLEAN,
     include : {<<>>, <<"core">>},
     hard : BOOLEAN, noLlms : BOOLEAN, dryRun : BOOLEAN]

\* What a run rejects with.
SyncErrors ==
    {"parent", "io", "cp", "install", "typedoc", "Missing entry points", "llms",
     "TypeError", "name.split is not a function"}

Stdout(msg) == [msg |-> msg, pkg |-> "", stream |-> "stdout"]
Stderr(msg) == [msg |-> msg, pkg |-> "", stream |-> "stderr"]
Exit(code) == [ev |-> "exit", pkg |-> "", code |-> code]

\* line 50: positionals[0] ?? ''
Cmd == IF opts.positionals = <<>> THEN "" ELSE Head(opts.positionals)

CliInit ==
    /\ cwd = Cwd
    /\ manifest = Distinct.manifest
    /\ guides = [d \in PkgDirNames |-> NoTree]
    /\ src = Distinct.src
    /\ pkgFiles = [d \in PkgDirNames |-> {}]
    /\ deps = {}
    /\ typedocBase = File("0")
    /\ packagesRoot = TRUE
    /\ outGuides = [b \in BaseNames |-> NoTree]
    /\ outApi = [b \in BaseNames |-> NoApi]
    /\ outLlms = [b \in BaseNames |-> NoLlms]
    /\ cacheFile = MissingDoc
    /\ pc = "cli"
    /\ opts \in CliArgs
    /\ discovered = <<>>
    /\ idx = 0
    /\ cache = EmptyCache
    /\ cur = NoCur
    /\ err = ""
    /\ log = <<>>
    /\ acts = <<>>
    /\ ran = {}
    /\ startCache = cacheFile
    /\ startFs = <<manifest, guides, src, pkgFiles, typedocBase,
                   packagesRoot, outGuides, outApi, outLlms, cacheFile>>
    /\ rerun = FALSE
    /\ prior = NoPrior
    /\ seen = NoneSeen(cacheFile)
    /\ touched = FALSE
    /\ now = 1
    /\ edits = 0

CliFrame ==
    /\ UNCHANGED <<opts, discovered, idx, cache>>
    /\ UNCHANGED <<envVars, outVars, cacheFile>>
    /\ UNCHANGED <<ran, startCache, startFs, rerun, prior, seen, touched, now, edits>>

\* lines 35-48: parseArgs throws on a flag it does not know, outside the
\* try block; the rejection of the async function is unhandled and ends
\* the process with code 1 and the error on the error stream.
CliParseFail ==
    /\ pc = "cli" /\ opts.unknown
    /\ err' = "Unknown option"
    /\ log' = Append(log, Stderr("Unknown option"))
    /\ acts' = Append(acts, Exit(1))
    /\ pc' = "exited"
    /\ UNCHANGED cur
    /\ CliFrame

\* lines 52-55
CliHelp ==
    /\ pc = "cli" /\ ~opts.unknown
    /\ opts.help \/ Cmd = ""
    /\ log' = Append(log, Stdout("usage"))
    /\ acts' = Append(acts, Exit(0))
    /\ pc' = "exited"
    /\ UNCHANGED <<cur, err>>
    /\ CliFrame

\* lines 56-60
CliUnknown ==
    /\ pc = "cli" /\ ~opts.unknown
    /\ ~(opts.help \/ Cmd = "")
    /\ Cmd # "sync"
    /\ log' = log \o <<Stderr("Unknown command"), Stdout("usage")>>
    /\ acts' = Append(acts, Exit(1))
    /\ pc' = "exited"
    /\ UNCHANGED <<cur, err>>
    /\ CliFrame

\* lines 62-85: runSync is called with the options built from the flags.
CliRun ==
    /\ pc = "cli" /\ ~opts.unknown
    /\ ~(opts.help \/ Cmd = "")
    /\ Cmd = "sync"
    /\ cur' = [include |-> opts.include, exclude |-> <<>>, clean |-> FALSE,
               hard |-> opts.hard, generateLlms |-> ~opts.noLlms,
               dryRun |-> opts.dryRun]
    /\ pc' = "running"
    /\ UNCHANGED <<err, log, acts>>
    /\ CliFrame

\* lines 87-89: runSync resolved; the process ends on its own with code 0.
CliDone ==
    /\ pc = "running"
    /\ log' = Append(log, Stdout("Done."))
    /\ acts' = Append(acts, Exit(0))
    /\ pc' = "exited"
    /\ UNCHANGED <<cur, err>>
    /\ CliFrame

\* lines 90-93: runSync rejected with e.
CliError(e) ==
    /\ pc = "running"
    /\ err' = e
    /\ log' = Append(log, Stderr(e))
    /\ acts' = Append(acts, Exit(1))
    /\ pc' = "exited"
    /\ UNCHANGED cur
    /\ CliFrame

CliNext ==
    \/ CliParseFail
    \/ CliHelp
    \/ CliUnknown
    \/ CliRun
    \/ CliDone
    \/ \E e \in SyncErrors : CliError(e)

CliSpec == CliInit /\ [][CliNext]_vars

(***************************************************************************)
(* validation.ts: isSyncOptions and assertSyncOptions, applied to          *)
(* JavaScript values.  A value is its type tag, its printed value and, for *)
(* an array, its items; a property that is absent reads as undefined.  In  *)
(* this specification opts holds the argument and acts the result.         *)
(***************************************************************************)
Js(t, v) == [t |-> t, v |-> v, items |-> <<>>]
JsArray(items) == [t |-> "array", v |-> "", items |-> items]
JsUndefined == Js("undefined", "")

\* The values tried for the pass-through fields llms and typedoc.
PassThroughValues ==
    {JsUndefined, Js("object", "{}"), Js("string", "bad"), Js("string", ""),
     Js("boolean", "false"), Js("number", "0"), Js("null", ""), JsArray(<<>>)}

\* The arguments: records with each field well or ill typed, and values
\* that are no record.
SyncInputs ==
    [t : {"object"},
     include : {JsUndefined, JsArray(<<>>), JsArray(<<Js("string", "core")>>),
                JsArray(<<Js("string", "core"), Js("number", "1")>>), Js("string", "core")},
     exclude : {JsArray(<<>>), JsArray(<<Js("number", "1")>>)},
     clean : {Js("boolean", "false"), Js("string", "yes")},
     hard : {Js("boolean", "true"), JsUndefined},
     generateLlms : {Js("boolean", "true"), Js("number", "1")},
     dryRun : {Js("boolean", "false"), Js("null", "")},
     llms : PassThroughValues,
     typedoc : PassThroughValues]
    \cup [t : {"null", "string", "array"},
          include : {JsUndefined}, exclude : {JsUndefined}, clean : {JsUndefined},
          hard : {JsUndefined}, generateLlms : {JsUndefined}, dryRun : {JsUndefined},
          llms : {JsUndefined}, typedoc : {JsUndefined}]

\* lines 4-6: typeof x === 'object' && x !== null && !Array.isArray(x)
isRecord(x) == x.t = "object"
isString(x) == x.t = "string"
isBoolean(x) == x.t = "boolean"

\* Array.isArray(x) && x.every(isString)
isStringArray(x) == x.t = "array" /\ \A i \in 1..Len(x.items) : isString(x.items[i])

\* The truthiness of a value in `x.llms && ...`.
ToBoolean(x) ==
    CASE x.t \in {"undefined", "null"} -> FALSE
      [] x.t = "boolean" -> x.v = "true"
      [] x.t = "number" -> x.v \notin {"0", "NaN"}
      [] x.t = "string" -> x.v # ""
      [] OTHER -> TRUE

\* lines 23-34
isSyncOptions(x) ==
    IF ~isRecord(x) THEN FALSE
    ELSE IF ~isStringArray(x.include) THEN FALSE
    ELSE IF ~isStringArray(x.exclude) THEN FALSE
    ELSE IF ~isBoolean(x.clean) THEN FALSE
    ELSE IF ~isBoolean(x.hard) THEN FALSE
    ELSE IF ~isBoolean(x.generateLlms) THEN FALSE
    ELSE IF ~isBoolean(x.dryRun) THEN FALSE
    ELSE IF ToBoolean(x.llms) /\ ~isRecord(x.llms) THEN FALSE
    ELSE ~(ToBoolean(x.typedoc) /\ ~isRecord(x.typedoc))

ValidateInit ==
    /\ cwd = Cwd
    /\ manifest = Distinct.manifest
    /\ guides = [d \in PkgDirNames |-> NoTree]
    /\ src = Distinct.src
    /\ pkgFiles = [d \in PkgDirNames |-> {}]
    /\ deps = {}
    /\ typedocBase = File("0")
    /\ packagesRoot = TRUE
    /\ outGuides = [b \in BaseNames |-> NoTree]
    /\ outApi = [b \in BaseNames |-> NoApi]
    /\ outLlms = [b \in BaseNames |-> NoLlms]
    /\ cacheFile = MissingDoc
    /\ pc = "validate"
    /\ opts \in SyncInputs
    /\ discovered = <<>>
    /\ idx = 0
    /\ cache = EmptyCache
    /\ cur = NoCur
    /\ err = ""
    /\ log = <<>>
    /\ acts = <<>>
    /\ ran = {}
    /\ startCache = cacheFile
    /\ startFs = <<manifest, guides, src, pkgFiles, typedocBase,
                   packagesRoot, outGuides, outApi, outLlms, cacheFile>>
    /\ rerun = FALSE
    /\ prior = NoPrior
    /\ seen = NoneSeen(cacheFile)
    /\ touched = FALSE
    /\ now = 1
    /\ edits = 0

\* assertSyncOptions(x), lines 109-111: the guard is evaluated and the
\* call returns or throws a TypeError.
AssertSyncOptions ==
    /\ pc = "validate"
    /\ acts' = Append(acts, [ev |-> "isSyncOptions", pkg |-> "",
                              result |-> isSyncOptions(opts)])
    /\ err' = IF isSyncOptions(opts) THEN "" ELSE "Invalid SyncOptions"
    /\ pc' = IF isSyncOptions(opts) THEN "returned" ELSE "failed"
    /\ UNCHANGED <<opts, discovered, idx, cache, cur, log>>
    /\ UNCHANGED <<envVars, outVars, cacheFile>>
    /\ UNCHANGED <<ran, startCache, startFs, rerun, prior, seen, touched, now, edits>>

ValidateNext == AssertSyncOptions

ValidateSpec == ValidateInit /\ [][ValidateNext]_vars

(***************************************************************************)
(* Properties                                                              *)
(***************************************************************************)
\* A run is under way or has just ended, and no input was edited since.
InRun == now > 0 /\ ~touched

\* The digests of the package being processed, recomputed from the disk and
\* compared with the entry the cache holds for its base name.
GuidesDiffer == GuidesHashOf(cur.pkgDir) # Cached(cache, cur.baseName).guidesHash
ApiDiffer == ApiHashOf(cur.pkgDir) # Cached(cache, cur.baseName).apiHash

\* The run logged "Processing <baseName> at <pkgDir>" for the directory.
ProcessedDir(dir) ==
    \E i \in 1..Len(log) : log[i].msg = "Processing" /\ log[i].dir = dir

ReportedUnchanged(baseName) ==
    \E i \in 1..Len(log) : log[i].msg = "Unchanged" /\ log[i].pkg = baseName

Did(ev) == \E i \in 1..Len(acts) : acts[i].ev = ev
DidFor(ev, baseName) == \E i \in 1..Len(acts) : acts[i].ev = ev /\ acts[i].pkg = baseName

OutputEffects == {"rm guides", "rm api", "mkdir guides", "copy guides", "install", "typedoc", "llms"}

\* C1: after a successful non-dry run, a second run with the same options
\* and no edit in between reports every discovered package as unchanged and
\* performs no clean, no guides copy, no API generation and no summary
\* generation.
C1_IdempotentSkip ==
    rerun =>
        /\ \A i \in 1..Len(log) : log[i].msg # "Processing"
        /\ \A i \in 1..Len(acts) : acts[i].ev \notin OutputEffects
        /\ pc = "done" =>
              \A i \in 1..Len(discovered) : ReportedUnchanged(discovered[i].baseName)

\* C1 restricted to workspaces whose packages resolve to distinct base
\* names and to caches whose packages member is a map.
C1_SkipWhenKeysDistinct ==
    (/\ \A i, j \in 1..Len(discovered) :
            discovered[i].baseName = discovered[j].baseName => i = j
     /\ cacheFile.packages = "map")
        => C1_IdempotentSkip

\* C2: until the final step of a run the cache file is what it was when
\* the run started, also after a throw; it is written at most once per run
\* and only after the loop has visited every discovered package.
C2_CacheWrittenOnceAtEnd ==
    /\ pc # "done" => cacheFile = startCache
    /\ Cardinality({i \in 1..Len(acts) : acts[i].ev = "write cache"}) <= 1
    /\ Did("write cache") => pc = "done" /\ idx = Len(discovered) + 1
    /\ cacheFile # startCache => Did("write cache")

\* A run has thrown after the cache in memory moved away from the file.
C2_Witness ==
    /\ pc = "failed"
    /\ err \in {"io", "cp", "install", "typedoc", "llms"}
    /\ ~opts.dryRun
    /\ idx = 2
    /\ cache.entries # loadCache(cacheFile).value.entries

\* C3: a dry run creates, modifies and deletes nothing: the disk during and
\* after the run is the disk the run started from.
C3_DryRunPurity ==
    (opts.dryRun /\ InRun) => (Fs = startFs /\ acts = <<>>)

\* A dry clean run has gone through every step of a changed package of a
\* fresh workspace and reported each of them.
C3_Witness ==
    /\ pc = "done" /\ opts.dryRun /\ opts.clean /\ opts.generateLlms /\ InRun
    /\ ~packagesRoot
    /\ \E i \in 1..Len(log) : log[i].msg = "[dry-run] mkdir -p"
    /\ \E i \in 1..Len(log) : log[i].msg = "[dry-run] clean guides"
    /\ \E i \in 1..Len(log) : log[i].msg = "[dry-run] Copy guides"
    /\ \E i \in 1..Len(log) : log[i].msg = "[dry-run] TypeDoc"
    /\ \E i \in 1..Len(log) : log[i].msg = "[dry-run] install dependencies"
    /\ \E i \in 1..Len(log) : log[i].msg = "[dry-run] @orkestrel/llms-txt"
    /\ \E i \in 1..Len(log) : log[i].msg = "[dry-run] write cache"

\* C4: for a processed package the Guides adapter is invoked iff its
\* guidesHash differs from the cached one, the API adapter iff its apiHash
\* differs from the cached one (no entry: empty-string digests).
C4_PerCategorySelectivity ==
    InRun =>
        /\ pc \in {"api", "llms", "update"} => (("guides" \in ran) <=> GuidesDiffer)
        /\ pc \in {"llms", "update"} => (("api" \in ran) <=> ApiDiffer)
        /\ pc \in {"guides", "api", "llms", "update", "failed"} =>
              /\ "guides" \in ran => GuidesDiffer
              /\ "api" \in ran => ApiDiffer

\* Only the API inputs of a package with a cache entry changed: the API
\* adapter ran and the Guides adapter did not.
C4_Witness ==
    /\ pc = "update" /\ InRun
    /\ cur.baseName \in DOMAIN cache.entries
    /\ "api" \in ran /\ "guides" \notin ran
    /\ ApiDiffer /\ ~GuidesDiffer

\* C5: the Summary adapter is invoked for a package iff summaries are
\* enabled and guidesChanged or apiChanged holds.
C5_SummarySelectivity ==
    InRun =>
        /\ pc = "update" =>
              (("llms" \in ran) <=> (opts.generateLlms /\ (GuidesDiffer \/ ApiDiffer)))
        /\ pc \in {"llms", "update", "failed"} =>
              ("llms" \in ran => opts.generateLlms /\ (GuidesDiffer \/ ApiDiffer))

\* Only the guides of a package changed: the summary is regenerated and
\* API generation is skipped.
C5_Witness ==
    /\ pc = "update" /\ InRun /\ ~opts.dryRun
    /\ cur.baseName \in DOMAIN cache.entries
    /\ GuidesDiffer /\ ~ApiDiffer
    /\ "llms" \in ran /\ "api" \notin ran
    /\ DidFor("llms", cur.baseName) /\ ~DidFor("typedoc", cur.baseName)

Loaded == loadCache(startCache).value

\* A completed non-dry run that went through the loop and wrote the cache.
Completed == pc = "done" /\ ~opts.dryRun /\ InRun /\ Did("write cache")

\* C7: after a completed non-dry run, the persisted entry of every package
\* the run processed as changed holds the guidesHash and the apiHash of that
\* package's inputs; when only its guides differed from the loaded entry,
\* the persisted apiHash is the loaded one.
C7_CacheRefresh ==
    Completed =>
        \A i \in 1..Len(log) :
            log[i].msg = "Processing" =>
                /\ log[i].pkg \in DOMAIN cacheFile.entries
                /\ cacheFile.entries[log[i].pkg].guidesHash = GuidesHashOf(log[i].dir)
                /\ cacheFile.entries[log[i].pkg].apiHash = ApiHashOf(log[i].dir)
                /\ (/\ GuidesHashOf(log[i].dir) # Cached(Loaded, log[i].pkg).guidesHash
                    /\ ApiHashOf(log[i].dir) = Cached(Loaded, log[i].pkg).apiHash)
                      => cacheFile.entries[log[i].pkg].apiHash = Cached(Loaded, log[i].pkg).apiHash

\* C7 restricted to runs whose discovered packages have distinct base names
\* and whose loaded packages member is a map.
C7_RefreshWhenKeysDistinct ==
    (/\ \A i, j \in 1..Len(discovered) :
            discovered[i].baseName = discovered[j].baseName => i = j
     /\ cache.packages = "map")
        => C7_CacheRefresh

\* The parsable packages of the workspace with their base names, whatever
\* the filters.
Workspace ==
    IF DiscoverThrows(ParentCandidates, manifest) THEN <<>> ELSE Discovered(NoOptions)

EntryOf(entries, b) == IF b \in DOMAIN entries THEN <<entries[b]>> ELSE <<>>

\* C8: after a completed non-dry run no loaded entry is missing from the
\* file; the entry of every workspace package the run did not process as
\* changed (found unchanged or excluded by the filters) and every entry of
\* a base name no workspace package has are persisted as they were loaded.
C8_CacheFrame ==
    Completed =>
        /\ DOMAIN Loaded.entries \subseteq DOMAIN cacheFile.entries
        /\ \A i \in 1..Len(Workspace) :
              ~ProcessedDir(Workspace[i].pkgDir) =>
                 EntryOf(cacheFile.entries, Workspace[i].baseName)
                    = EntryOf(Loaded.entries, Workspace[i].baseName)
        /\ \A b \in DOMAIN Loaded.entries :
              (\A i \in 1..Len(Workspace) : Workspace[i].baseName # b) =>
                 cacheFile.entries[b] = Loaded.entries[b]

\* C8 per cache key: entries of base names no processed package has.
C8_FramePerKey ==
    Completed =>
        /\ DOMAIN Loaded.entries \subseteq DOMAIN cacheFile.entries
        /\ cache.packages = "map" =>
              \A b \in DOMAIN cacheFile.entries :
                  (\A i \in 1..Len(log) : log[i].msg = "Processing" => log[i].pkg # b) =>
                      EntryOf(cacheFile.entries, b) = EntryOf(Loaded.entries, b)

\* A cache.json loadCache accepts and whose packages member is a map.
ValidCache(doc) ==
    /\ doc.file = "object"
    /\ doc.version \notin {"absent", "falsy"}
    /\ doc.packages = "map"

\* C9: whatever cache.json holds, a run never rejects because of the cache
\* (its only failures are the working-directory check, name resolution, I/O
\* while hashing and the adapters), and a completed non-dry run leaves a
\* valid cache.
C9_CorruptedCacheNeverBlocks ==
    /\ pc = "failed" =>
          err \in {"parent", "name.split is not a function", "io", "cp", "install", "typedoc",
                   "Missing entry points", "llms"}
    /\ Completed => ValidCache(cacheFile)

\* C10: loadCache never throws; for a missing file, a file that is not JSON
\* or a document without version or without packages it returns
\* {version: 1, packages: {}}, and for a document with version 1 and a
\* packages map it returns that document.
C10_LoadCacheNeverThrows ==
    pc = "loaded" =>
        /\ err = ""
        /\ (\/ cacheFile.file \in {"missing", "garbage"}
            \/ cacheFile.version = "absent"
            \/ cacheFile.packages = "absent")
              => cache = [version |-> "1", packages |-> "map", entries |-> <<>>]
        /\ (cacheFile.file = "object" /\ cacheFile.version = "1" /\ cacheFile.packages = "map")
              => cache = [version |-> cacheFile.version, packages |-> cacheFile.packages,
                          entries |-> cacheFile.entries]

\* loadCache has returned a well-formed document with two entries.
C10_Witness ==
    /\ pc = "loaded" /\ err = ""
    /\ cacheFile.file = "object" /\ cacheFile.version = "1" /\ cacheFile.packages = "map"
    /\ Cardinality(DOMAIN cacheFile.entries) = 2
    /\ cache.entries = cacheFile.entries

\* The hashes of core: those of the first call and those of the second.
First == cache.entries["core"]
FirstOf(d) == cache.entries[d]
Rehashed == pc = "rehashed"
Changed1(what) == log # <<>> /\ log[1].msg = what

\* A file the API hash is to leave out, by its path below src: a test file,
\* or a file inside a node_modules, dist or build directory at any depth.
TestFile(rel) ==
    \/ EndsWith(Chars(rel[Len(rel)]), Chars(".test.ts"))
    \/ EndsWith(Chars(rel[Len(rel)]), Chars(".spec.ts"))
InOutputDir(rel) == \E i \in 1..(Len(rel) - 1) : rel[i] \in {"node_modules", "dist", "build"}
Excluded(rel) == TestFile(rel) \/ InOutputDir(rel)

\* C11: wherever the workspace lies, a changed content of one file under
\* guides changes the guides hash; a changed content of one file under src
\* that is not excluded, or of the shared config, changes the API hash.
C11_HashSensitivity ==
    Rehashed =>
        /\ Changed1("touch guides") => cur.guidesHash # First.guidesHash
        /\ (Changed1("touch src") /\ ~Excluded(log[1].rel)) => cur.apiHash # First.apiHash
        /\ Changed1("touch base") => cur.apiHash # First.apiHash

\* C11 for workspaces whose absolute path has no directory named
\* node_modules, dist or build.
C11_SensitiveOutsideOutputDirs ==
    (\A i \in 1..Len(cwd) : cwd[i] \notin {"node_modules", "dist", "build"})
        => C11_HashSensitivity

\* C12: source trees that differ only in excluded files (content changed,
\* file added, removed or renamed) have the same API hash.
C12_ExcludedFilesDoNotInfluence ==
    (/\ Rehashed
     /\ log # <<>>
     /\ log[1].msg \in {"touch src", "add src", "remove src", "rename src"}
     /\ Excluded(log[1].rel) /\ Excluded(log[1].to))
        => cur.apiHash = First.apiHash

\* A test file beside index.ts was renamed and the API hash is the same.
C12_Witness ==
    /\ Rehashed /\ Changed1("rename src")
    /\ log[1].rel = <<"index.test.ts">> /\ log[1].to = <<"index.spec.ts">>
    /\ \E f \in src["core"].files : f.rel = <<"index.ts">>
    /\ cwd = Cwd
    /\ cur.apiHash = First.apiHash

\* C13: with nothing changed on disk, a second call returns the digests of
\* the first, whatever order the directory listings came in.
C13_HashDeterminism ==
    (Rehashed /\ log = <<>>) =>
        /\ cur.guidesHash = First.guidesHash
        /\ cur.apiHash = First.apiHash

\* Both calls hashed two guides files and two source files, and walkDir
\* returned them in different orders.
C13_Witness ==
    /\ Rehashed /\ log = <<>>
    /\ Len(acts[1].guides) = 2 /\ acts[1].guides # acts[2].guides
    /\ Len(acts[1].src) = 2 /\ acts[1].src # acts[2].src
    /\ \A i \in 1..2 : ~shouldSkipForApi(acts[1].src[i])
    /\ cur.guidesHash = First.guidesHash /\ cur.apiHash = First.apiHash

\* C14: packages without a guides directory have one and the same guides
\* hash, which a change under src or of the shared config leaves alone, and
\* which no package with a guides directory, empty or not, has.
C14_NoGuidesSentinel ==
    pc \in {"hashed", "edited", "rehashed"} =>
        /\ \A d, e \in PkgDirNames :
              ~guides[d].exists =>
                 (FirstOf(d).guidesHash = FirstOf(e).guidesHash <=> ~guides[e].exists)
        /\ (Rehashed /\ ~guides["core"].exists) => cur.guidesHash = First.guidesHash

\* core has no guides, validator has some, a source file of core was
\* changed, and core's guides hash is what it was.
C14_Witness ==
    /\ Rehashed /\ Changed1("touch src")
    /\ ~guides["core"].exists /\ guides["validator"].exists
    /\ cur.guidesHash = First.guidesHash
    /\ cur.apiHash # First.apiHash
    /\ First.guidesHash # FirstOf("validator").guidesHash

\* An empty guides directory and an absent one, side by side.
C14_EmptyIsNotAbsent ==
    /\ pc = "hashed"
    /\ guides["core"] = EmptyTree /\ ~guides["validator"].exists
    /\ First.guidesHash # FirstOf("validator").guidesHash

\* Discovery of the run has completed (DiscoverSpec stops a run there).
DiscoveryDone == now > 0 /\ pc \in {"hash", "done"}

\* The directories of the discovered packages.
DiscoveredDirs == {Basename(discovered[i].pkgDir) : i \in 1..Len(discovered)}

\* The workspace holds a package named core in core and a package named
\* validator in validator, and the tool runs from docs.
CoreAndValidator ==
    /\ manifest["core"] \in {"@orkestrel/core", ManifestNoName}
    /\ manifest["validator"] \in {"validator", ManifestNoName}
    /\ Basename(cwd) = "docs"

FilterOutcome ==
    /\ opts.include = <<"core">> /\ opts.exclude = <<>> => DiscoveredDirs = {"core"}
    /\ opts.include = <<>> /\ opts.exclude = <<"validator">> =>
          DiscoveredDirs = PkgDirNames \ {"validator"}
    /\ opts.include = <<>> /\ opts.exclude = <<>> => DiscoveredDirs = PkgDirNames

\* C15: in a workspace with packages named core and validator, wherever the
\* workspace is on disk, include=['core'] discovers exactly core,
\* exclude=['validator'] discovers every package except validator, and an
\* empty include list lets every package pass.
C15_FilterCorrectness == DiscoveryDone /\ CoreAndValidator => FilterOutcome

\* The same, for the workspaces whose own path contains neither name.
C15_CorrectAwayFromNames ==
    /\ DiscoveryDone /\ CoreAndValidator
    /\ \A p \in {"core", "validator"} : ~Includes(PathChars(Parent(cwd)), Chars(p))
    => FilterOutcome

\* The sibling directories that are candidates whichever directory is taken
\* for the tool's own, and whose manifest parses.
Siblings ==
    {d \in DirNames \ {"docs", Basename(cwd)} :
        manifest[d] \notin {ManifestMissing, ManifestUnparsable}}

\* The base name of the package in sibling d.
BaseOf(d) == toBaseName(IF manifest[d] = ManifestNoName THEN d ELSE manifest[d])

\* Pattern p matches the package in sibling d.
PatternMatches(p, d) ==
    \/ p = BaseOf(d)
    \/ p = d
    \/ Includes(PathChars(Join(Parent(cwd), d)), Chars(p))

\* The package in sibling d passes the filters of the run.
Passes(d) ==
    /\ \/ opts.include = <<>>
       \/ \E i \in 1..Len(opts.include) : PatternMatches(opts.include[i], d)
    /\ ~\E j \in 1..Len(opts.exclude) : PatternMatches(opts.exclude[j], d)

\* C16: a candidate is discovered iff the include list is empty or one of
\* its patterns matches it, and no exclude pattern matches it; a pattern
\* matches a package iff it equals its base name, equals its directory name
\* or occurs in its absolute directory path.
C16_FilterSemantics ==
    DiscoveryDone => \A d \in Siblings : d \in DiscoveredDirs <=> Passes(d)

\* A package selected by a substring of its path alone, another one left out.
C16_Witness ==
    /\ DiscoveryDone
    /\ cwd = Cwd
    /\ opts.include = <<"val">> /\ opts.exclude = <<>>
    /\ Siblings = {"core", "validator"}
    /\ BaseOf("validator") = "core"
    /\ DiscoveredDirs = {"validator"}

\* C17: the directory the orchestrator runs from is never discovered, and
\* every other sibling directory with a parsable manifest that passes the
\* filters is.
C17_SelfExclusion ==
    DiscoveryDone =>
        /\ Basename(cwd) \notin DiscoveredDirs
        /\ \A d \in DirNames \ {Basename(cwd)} :
              manifest[d] \notin {ManifestMissing, ManifestUnparsable} /\ Passes(d)
                  => d \in DiscoveredDirs

\* The same, for the runs started from a directory named docs.
C17_SelfExcludedWhenNamedDocs == Basename(cwd) = "docs" => C17_SelfExclusion

\* The declared names of the model with their scope prefix stripped.
Stripped ==
       ("@orkestrel/core" :> "core") @@ ("@acme/core" :> "core")
    @@ ("validator" :> "validator") @@ ("@orkestrel/docs" :> "docs")

\* The base name of the package in directory d: its declared name without
\* the scope, the name of the directory when the manifest declares no
\* usable name.
ExpectedBase(d) == IF manifest[d] \in DOMAIN Stripped THEN Stripped[manifest[d]] ELSE d

NameResolved ==
    /\ pc # "failed"
    /\ \A i \in 1..Len(discovered) :
          discovered[i].baseName = ExpectedBase(Basename(discovered[i].pkgDir))

\* C18: every discovered package is keyed by its declared name without the
\* scope prefix, or by the name of its directory when the declared name is
\* absent or not a usable string, and resolving names never fails the run.
C18_NameResolution ==
    now > 0 /\ Basename(Parent(cwd)) = "orkestrel" => NameResolved

\* The same, for the workspaces whose manifests declare a non-empty string
\* or nothing as the name.
C18_ResolvedForStringNames ==
    /\ now > 0 /\ Basename(Parent(cwd)) = "orkestrel"
    /\ \A d \in DirNames : manifest[d] \notin {ManifestNumericName, ""}
    => NameResolved

\* The directories discovery has to drop, and the listing of the parent
\* directory without them.
Dropped == {d \in DirNames : manifest[d] \in {ManifestMissing, ManifestUnparsable}}
KeptEntries == SelectSeq(ParentEntries, LAMBDA d : d \notin Dropped)
KeptCandidates == Candidates(Parent(cwd), KeptEntries, manifest)

\* C19: a directory whose manifest is missing or does not parse is dropped
\* without an error: it is never discovered, and the run fails or discovers
\* packages exactly as it does in the workspace without that directory.
C19_BadManifestDropped ==
    now > 0 /\ Basename(Parent(cwd)) = "orkestrel" =>
        /\ DiscoveredDirs \cap Dropped = {}
        /\ (pc = "failed") = DiscoverThrows(KeptCandidates, manifest)
        /\ pc # "failed" => discovered = Discover(KeptCandidates, manifest, opts)

\* A run that dropped a directory with an unparsable manifest and went on
\* with the other package.
C19_Witness ==
    /\ pc = "hash"
    /\ manifest["validator"] = ManifestUnparsable
    /\ DiscoveredDirs = {"core"}

\* C20: started from a directory whose parent is not named orkestrel, a run
\* rejects, dry or not, before it creates a directory, discovers or hashes
\* a package, prints a line, or reads or writes the cache.
C20_WorkingDirectoryPrecondition ==
    InRun /\ Basename(Parent(cwd)) # "orkestrel" =>
        /\ pc = "failed" /\ err = "parent"
        /\ Fs = startFs
        /\ acts = <<>> /\ log = <<>>
        /\ discovered = <<>> /\ cur = NoCur
        /\ cache = EmptyCache /\ cacheFile = startCache

\* A rejected non-dry run in a workspace that has packages to discover and
\* no packages root yet.
C20_Witness ==
    /\ InRun /\ pc = "failed" /\ err = "parent"
    /\ ~opts.dryRun
    /\ ~packagesRoot
    /\ \E d \in PkgDirNames : manifest[d] \in ManifestNames

\* The entry point of the package in directory d: the first conventional
\* entry file that exists, the src directory when there is none.
ExistingDefaults(d) == {i \in 1..Len(Defaults) : PkgPathExists(d, Defaults[i])}
ExpectedEntry(d) ==
    IF ExistingDefaults(d) # {}
    THEN [entryPoints |-> <<Defaults[CHOOSE i \in ExistingDefaults(d) :
                                        \A j \in ExistingDefaults(d) : i <= j]>>,
          strategy |-> "resolve"]
    ELSE [entryPoints |-> << <<"src">> >>, strategy |-> "expand"]

\* The API step of the package being processed has just run.
ApiStepDone == pc = "llms" /\ "api" \in ran

\* What generateApiDocs was given: the generated output records it, the
\* dry-run line prints it.
EntryGiven ==
    IF opts.dryRun
    THEN LET l == CHOOSE l \in {log[i] : i \in 1..Len(log)} :
                      l.msg = "[dry-run] TypeDoc" /\ l.pkg = cur.baseName
         IN  [entryPoints |-> l.entryPoints, strategy |-> l.strategy]
    ELSE [entryPoints |-> outApi[cur.baseName].entryPoints,
          strategy |-> outApi[cur.baseName].strategy]

\* C21: when API generation runs for a package, the generator is given the
\* first of src/index.ts, src/main.ts, index.ts, lib/index.ts that exists,
\* with strategy resolve, or the src directory with strategy expand when
\* none exists.
C21_EntryPointSelection ==
    ApiStepDone => EntryGiven = ExpectedEntry(Basename(cur.pkgDir))

\* The same, for the packages with at most one conventional entry file.
C21_SelectedWhenAtMostOne ==
    ApiStepDone /\ Cardinality(ExistingDefaults(Basename(cur.pkgDir))) <= 1
        => EntryGiven = ExpectedEntry(Basename(cur.pkgDir))

\* The errors of hashing, of the dependency install, of the API generator
\* and of the summary generator.
AbortErrors == {"io", "install", "typedoc", "llms"}

\* The packages the loop has reached: one Processing or Unchanged line each.
Reached == {i \in 1..Len(log) : log[i].msg \in {"Processing", "Unchanged"}}

\* C22: when hashing, the dependency install, the API generator or the
\* summary generator fails for a package, the run rejects with that error:
\* it stops at that package, no later package is hashed or processed, and
\* cache.json is not written.
C22_FailuresAbort ==
    InRun /\ err \in AbortErrors =>
        /\ pc = "failed"
        /\ idx \in 1..Len(discovered)
        /\ Cardinality(Reached) = IF err = "io" THEN idx - 1 ELSE idx
        /\ \A k \in (idx + 1)..Len(discovered) : ~ProcessedDir(discovered[k].pkgDir)
        /\ \A i \in 1..Len(acts) :
              acts[i].ev \in OutputEffects =>
                  acts[i].pkg \in {discovered[k].baseName : k \in 1..idx}
        /\ ~Did("write cache")
        /\ cacheFile = startCache

\* The API generator failed for the first of two packages of a non-dry run
\* whose guides had been copied.
C22_Witness ==
    /\ InRun /\ pc = "failed" /\ err = "typedoc"
    /\ ~opts.dryRun
    /\ idx = 1 /\ Len(discovered) = 2
    /\ DidFor("copy guides", discovered[1].baseName)

\* The decisions and actions a dry run reported, read off its log.
ReportedBy(l) ==
    IF l.msg = "Unchanged" THEN {[what |-> "unchanged", pkg |-> l.pkg]}
    ELSE IF l.msg = "[dry-run] mkdir -p" THEN {[what |-> "mkdir", pkg |-> l.pkg]}
    ELSE IF l.msg = "[dry-run] clean guides" THEN {[what |-> "rm guides", pkg |-> l.pkg]}
    ELSE IF l.msg = "[dry-run] clean api" THEN {[what |-> "rm api", pkg |-> l.pkg]}
    ELSE IF l.msg = "[dry-run] Copy guides" THEN {[what |-> "copy guides", pkg |-> l.pkg]}
    ELSE IF l.msg = "[dry-run] TypeDoc"
    THEN {[what |-> "typedoc", pkg |-> l.pkg, entryPoints |-> l.entryPoints,
           strategy |-> l.strategy]}
    ELSE IF l.msg = "[dry-run] install dependencies" THEN {[what |-> "install", pkg |-> l.pkg]}
    ELSE IF l.msg = "[dry-run] @orkestrel/llms-txt"
    THEN {[what |-> "llms", pkg |-> l.pkg, root |-> l.root, validateLinks |-> l.validateLinks]}
    ELSE IF l.msg = "[dry-run] skip LLMs (no docs)" THEN {[what |-> "skip llms", pkg |-> l.pkg]}
    ELSE IF l.msg = "[dry-run] write cache" THEN {[what |-> "write cache", pkg |-> l.pkg]}
    ELSE {}

Reported(dryLog) == UNION {ReportedBy(dryLog[i]) : i \in 1..Len(dryLog)}

\* The decisions and actions of a non-dry run, read off its side effects and
\* its log.
PerformedBy(a) ==
    IF a.ev \in {"mkdir", "rm guides", "rm api", "copy guides", "install", "write cache"}
    THEN {[what |-> a.ev, pkg |-> a.pkg]}
    ELSE IF a.ev = "typedoc"
    THEN {[what |-> "typedoc", pkg |-> a.pkg, entryPoints |-> a.entryPoints,
           strategy |-> a.strategy]}
    ELSE IF a.ev = "llms"
    THEN {[what |-> "llms", pkg |-> a.pkg, root |-> a.root, validateLinks |-> a.validateLinks]}
    ELSE {}

DecidedBy(l) ==
    IF l.msg = "Unchanged" THEN {[what |-> "unchanged", pkg |-> l.pkg]}
    ELSE IF l.msg = "Skipping LLMs generation (no docs directory)"
    THEN {[what |-> "skip llms", pkg |-> l.pkg]}
    ELSE {}

Performed ==
    UNION ({PerformedBy(acts[i]) : i \in 1..Len(acts)} \cup {DecidedBy(log[i]) : i \in 1..Len(log)})

\* A non-dry run has completed that was started with the options and from the
\* disk of a completed dry run.
DryThenReal == pc = "done" /\ InRun /\ prior.dry

\* C23: from the same disk and cache, what a dry run reports (unchanged
\* packages, clean targets, guides copy, API generation with entry points
\* and strategy, summary generation or skip with docs root and validation
\* flag, cache write) is what the non-dry run does.
C23_DryRunFidelity == DryThenReal => Reported(prior.log) = Performed

\* The same, for the runs that generate no summaries.
C23_FidelityWithoutSummaries ==
    DryThenReal /\ ~opts.generateLlms => Reported(prior.log) = Performed

\* The base names cache.json holds an entry for.
Persisted == IF cacheFile.file = "object" THEN DOMAIN cacheFile.entries ELSE {}

\* C24 as stated: starting from an empty cache, cache.json holds an entry
\* for a base name iff some earlier run discovered a package with that base
\* name and processed it.
C24_EntryIffProcessed == seen.fresh /\ pc \in Terminal => Persisted = seen.any

\* C24: starting from an empty cache, cache.json holds an entry for a base
\* name iff some earlier non-dry run that ran to completion, and so saved
\* the cache, discovered a package with that base name and processed it.
C24_EntryIffProcessedAndSaved == seen.fresh /\ pc \in Terminal => Persisted = seen.kept

\* A second run has saved an entry for core, which it processed, and none
\* for validator, which its filters excluded.
C24_Witness ==
    /\ seen.fresh /\ pc = "done" /\ now = 2
    /\ Did("write cache")
    /\ opts.exclude = <<"validator">>
    /\ Len(Workspace) = 2
    /\ Persisted = {"core"}

\* C25: saveCache replaces cache.json atomically: whenever the save stops,
\* the file holds the complete previous document or the complete new one;
\* and it creates the directory of the file when that is missing, so the
\* save does not fail for it.
C25_AtomicCacheSave ==
    /\ cacheFile \in {startCache, saveCache(cache)}
    /\ err # "ENOENT"

\* The same, for the saves that run to their end in an existing directory.
C25_SavedWhenUninterrupted == pc = "saved" => cacheFile = saveCache(cache)

\* The guides output of the package, before the step and now.
DestBefore == startFs[7][cur.baseName]
DestNow == outGuides[cur.baseName]
SourceNow == guides[Basename(cur.pkgDir)]

\* copyGuides has returned from a copy.
Copied == pc # "guides" /\ DidFor("copy guides", cur.baseName)

\* C26: after copyGuides in a non-dry run, every file of the source guides
\* is at the destination with the source content, and every file that was
\* at the destination and has no counterpart in the source is unchanged.
C26_NonDeletingOverwrite ==
    Copied =>
        /\ DestNow.exists
        /\ \A f \in SourceNow.files :
              \A g \in DestNow.files : g.rel = f.rel <=> g = f
        /\ SourceNow.files \subseteq DestNow.files
        /\ \A g \in DestBefore.files :
              (\A f \in SourceNow.files : f.rel # g.rel) => g \in DestNow.files

\* A copy that replaced an older index.md and left alone a file the
\* package does not have.
C26_Witness ==
    /\ Copied
    /\ [rel |-> <<"index.md">>, data |-> "0"] \in DestBefore.files
    /\ [rel |-> <<"index.md">>, data |-> "1"] \in DestNow.files
    /\ [rel |-> <<"main.ts">>, data |-> "0"] \in DestNow.files
    /\ \A f \in SourceNow.files : f.rel # <<"main.ts">>

NoGuidesDir == ~SourceNow.exists
NoApiMarkdown == ~(outApi[cur.baseName].exists /\ outApi[cur.baseName].md)
Logged(msg) == \E i \in 1..Len(log) : log[i].msg = msg /\ log[i].pkg = cur.baseName

\* C27: copyGuides with no guides directory at the source, and
\* generateLlmsOutputs with neither a guides directory nor generated API
\* markdown, return normally in dry-run and non-dry-run alike, without
\* creating, modifying or deleting anything and without invoking the
\* generator.
C27_AbsentInputsAreSkips ==
    /\ (NoGuidesDir /\ pc # "guides") =>
          /\ err # "cp"
          /\ outGuides = startFs[7]
          /\ ~Did("copy guides") /\ ~Did("mkdir guides")
          /\ Logged("No guides found; skipping.")
    /\ (NoGuidesDir /\ NoApiMarkdown) =>
          /\ pc # "failed" /\ err = ""
          /\ Fs = startFs
          /\ acts = <<>>
          /\ (pc = "update" /\ opts.generateLlms) =>
                Logged(IF opts.dryRun THEN "[dry-run] skip LLMs (no docs)"
                       ELSE "Skipping LLMs generation (no docs directory)")

\* A non-dry run that skipped both steps, over an output directory that
\* holds older guides and an API directory without markdown.
C27_Witness ==
    /\ NoGuidesDir /\ NoApiMarkdown
    /\ pc = "update" /\ ~opts.dryRun /\ opts.generateLlms
    /\ outApi[cur.baseName].exists
    /\ outGuides[cur.baseName].files # {}
    /\ Logged("No guides found; skipping.")
    /\ Logged("Skipping LLMs generation (no docs directory)")

\* The same skips in a dry run.
C27_DryWitness ==
    /\ NoGuidesDir /\ NoApiMarkdown
    /\ pc = "update" /\ opts.dryRun /\ opts.generateLlms
    /\ Logged("No guides found; skipping.")
    /\ Logged("[dry-run] skip LLMs (no docs)")

\* The state generateApiDocs was called in.
ApiDir == Basename(opts.pkgDir)
NoManifestAtCall == startFs[1][ApiDir] = ManifestMissing
DepsMissingAtCall == ApiDir \in deps /\ <<"node_modules">> \notin startFs[4][ApiDir]
EntryMissingAtCall == MissingOf(ApiDir, opts.entryPoints) # <<>>
ApiLogged(msg) == \E i \in 1..Len(log) : log[i].msg = msg /\ log[i].pkg = ApiDir

\* C28: generateApiDocs rejects when the package has no manifest, dry run
\* or not; missing explicit entry-point files, and declared but
\* uninstalled dependencies with auto-install off, make it reject in a
\* non-dry run only; in a dry run it reports its intent, returns normally
\* and has no side effect.
C28_ApiPreconditions ==
    pc # "api" =>
        /\ NoManifestAtCall =>
              /\ pc = "failed" /\ err = "Missing package.json"
              /\ Fs = startFs /\ acts = <<>> /\ log = <<>>
        /\ (~NoManifestAtCall /\ opts.dryRun) =>
              /\ pc = "returned" /\ err = ""
              /\ Fs = startFs /\ acts = <<>>
              /\ ApiLogged("[dry-run] TypeDoc")
              /\ DepsMissingAtCall =>
                    ApiLogged(IF opts.autoInstallDeps THEN "[dry-run] install dependencies"
                              ELSE "[dry-run] missing dependencies")
        /\ (~NoManifestAtCall /\ ~opts.dryRun /\ DepsMissingAtCall /\ ~opts.autoInstallDeps) =>
              /\ pc = "failed" /\ err = "Dependencies not installed"
              /\ Fs = startFs /\ acts = <<>>
        /\ (~NoManifestAtCall /\ ~opts.dryRun /\ EntryMissingAtCall) =>
              /\ pc = "failed"
              /\ err \in {"Missing entry points", "Dependencies not installed", "install"}
              /\ outApi = startFs[8] /\ ~Did("typedoc")

\* A non-dry call with an entry point that does not exist is rejected.
C28_Witness ==
    /\ pc = "failed" /\ err = "Missing entry points"
    /\ ~opts.dryRun /\ ~NoManifestAtCall /\ EntryMissingAtCall
    /\ src[ApiDir].exists

\* The same call in a dry run returns, with dependencies declared and
\* not installed, and auto-install off.
C28_DryWitness ==
    /\ pc = "returned" /\ opts.dryRun
    /\ EntryMissingAtCall /\ DepsMissingAtCall /\ ~opts.autoInstallDeps
    /\ ApiLogged("[dry-run] missing dependencies")

\* A dry run on a directory without a manifest is rejected.
C28_NoManifestWitness ==
    /\ pc = "failed" /\ err = "Missing package.json" /\ opts.dryRun

\* A non-dry call with dependencies declared, not installed and
\* auto-install off is rejected.
C28_DepsWitness ==
    /\ pc = "failed" /\ err = "Dependencies not installed" /\ ~EntryMissingAtCall

\* The calls of the generator, and the dry-run lines that announce one.
GeneratorCalls == {i \in 1..Len(acts) : acts[i].ev = "llms"}
GeneratorLines == {i \in 1..Len(log) : log[i].msg = "[dry-run] @orkestrel/llms-txt"}

\* C29: whenever hard is true, generateLlmsOutputs passes
\* validateLinks = true to the generator, and reports validateLinks in a
\* dry run, whatever validateLinks value it was given; when hard is false
\* the value it was given is forwarded unchanged.
C29_HardForcesValidation ==
    /\ \A i \in GeneratorCalls :
          acts[i].validateLinks = IF opts.hard THEN "true" ELSE opts.validateLinks
    /\ \A i \in GeneratorLines :
          /\ opts.hard => log[i].validateLinks
          /\ ~opts.hard => (log[i].validateLinks <=> opts.validateLinks = "true")
    /\ (pc # "llms" /\ DocsRootExists(opts.pkgDir, LlmsPkg)) =>
          IF opts.dryRun THEN GeneratorLines # {} /\ GeneratorCalls = {}
          ELSE GeneratorCalls # {} /\ GeneratorLines = {}

\* A hard call given validateLinks = false ran the generator with
\* validation on.
C29_Witness ==
    /\ pc = "returned" /\ opts.hard /\ ~opts.dryRun /\ opts.validateLinks = "false"
    /\ \E i \in GeneratorCalls : acts[i].validateLinks = "true"

\* The same call in a dry run reports validateLinks.
C29_DryWitness ==
    /\ pc = "returned" /\ opts.hard /\ opts.dryRun /\ opts.validateLinks = "false"
    /\ \E i \in GeneratorLines : log[i].validateLinks

\* A call without hard forwards an undefined validateLinks as undefined.
C29_ForwardWitness ==
    /\ pc = "returned" /\ ~opts.hard /\ ~opts.dryRun /\ opts.validateLinks = "undefined"
    /\ \E i \in GeneratorCalls : acts[i].validateLinks = "undefined"

\* The files of a tree that carry an expected name.
Named(tree, name) == {f \in tree.files : Basename(f.rel) = name}
Nested(tree, name) == {f \in tree.files : Basename(f.rel) = name /\ Len(f.rel) > 1}
NameIndexes == 1..Len(opts.files)

\* The application left the root file of the name alone.
RootKept(a, name) ==
    RootExists(a.before, name) => Named(a.after, name) = Named(a.before, name)

\* The application brought a nested file of the name to the root.
Promoted(a, name) ==
    (~RootExists(a.before, name) /\ Nested(a.before, name) # {}) =>
        \E f \in Nested(a.before, name) :
            [rel |-> <<name>>, data |-> f.data] \in a.after.files

Contents(tree, name) == {f.data : f \in Named(tree, name)}

\* C31: whatever the rename, the copy and the delete do,
\* normalizeLlmsOutputs does not raise, and every output file keeps at
\* least one complete copy on disk, at its original location when the
\* relocation failed.
C31_NoDataLoss ==
    /\ pc = "normalize" /\ err = ""
    /\ \A i \in 1..Len(acts) :
          \A n \in NameIndexes :
              LET name == opts.files[n]
                  c == acts[i].choice[n]
              IN  /\ Contents(acts[i].before, name) \subseteq Contents(acts[i].after, name)
                  /\ c.outcome \in {"left", "copied"} => c.found \in acts[i].after.files
                  /\ \A f \in Named(acts[i].before, name) :
                        f # c.found => f \in acts[i].after.files

\* An application in which the move of llms.txt failed both ways and the
\* delete after the copy of llms-full.txt failed.
C31_Witness ==
    \E i \in 1..Len(acts) :
        \E n, m \in NameIndexes :
            /\ acts[i].choice[n].outcome = "left"
            /\ acts[i].choice[m].outcome = "copied"
            /\ acts[i].choice[n].found \in acts[i].after.files
            /\ acts[i].choice[m].found \in acts[i].after.files
            /\ opts.files[m] = "llms-full.txt"
            /\ [rel |-> <<"llms-full.txt">>, data |-> "1"] \in acts[i].after.files

\* What the process did, once it has exited.
ExitCode == acts[Len(acts)].code
OnStream(msg, stream) == \E i \in 1..Len(log) : log[i].msg = msg /\ log[i].stream = stream
UsagePrinted == OnStream("usage", "stdout")
HelpOrNoCommand == opts.help \/ Cmd = ""
SyncSucceeded == OnStream("Done.", "stdout")
UnknownSubcommand == ~HelpOrNoCommand /\ Cmd # "sync"
FatalError == err \in SyncErrors

\* C32: the process exits with code 0 when sync succeeds or when help is
\* requested or no command is given, and with code 1 on an unknown
\* subcommand or on any fatal error of the run, with the error message on
\* the error stream and the usage text reprinted.
C32_ExitProtocol ==
    pc = "exited" =>
        /\ (SyncSucceeded \/ (HelpOrNoCommand /\ ~opts.unknown)) => ExitCode = 0
        /\ (UnknownSubcommand /\ ~opts.unknown) =>
              ExitCode = 1 /\ OnStream("Unknown command", "stderr") /\ UsagePrinted
        /\ FatalError =>
              ExitCode = 1 /\ OnStream(err, "stderr") /\ UsagePrinted

\* C32 as the code has it: the codes and the error stream are as stated,
\* and the usage text is printed for help and for an unknown subcommand
\* only.
C32_ExitCodes ==
    pc = "exited" =>
        /\ (SyncSucceeded \/ (HelpOrNoCommand /\ ~opts.unknown)) => ExitCode = 0
        /\ (UnknownSubcommand /\ ~opts.unknown) =>
              ExitCode = 1 /\ OnStream("Unknown command", "stderr") /\ UsagePrinted
        /\ FatalError =>
              ExitCode = 1 /\ OnStream(err, "stderr") /\ ~UsagePrinted
        /\ opts.unknown => ExitCode = 1 /\ ~UsagePrinted
        /\ ExitCode \in {0, 1}
        /\ ExitCode = 0 <=> err = "" /\ (SyncSucceeded \/ HelpOrNoCommand)

\* A run that failed: code 1 and the message, without the usage text.
C32_FatalWitness ==
    pc = "exited" /\ err = "parent" /\ ExitCode = 1 /\ ~UsagePrinted

\* What the guard is stated to accept.
Present(x) == x.t # "undefined"
StatedValid(x) ==
    /\ x.t = "object"
    /\ isStringArray(x.include) /\ isStringArray(x.exclude)
    /\ isBoolean(x.clean) /\ isBoolean(x.hard)
    /\ isBoolean(x.generateLlms) /\ isBoolean(x.dryRun)
    /\ Present(x.llms) => x.llms.t = "object"
    /\ Present(x.typedoc) => x.typedoc.t = "object"
Checked == pc \in {"returned", "failed"}
GuardResult == acts[Len(acts)].result

\* C33: isSyncOptions is true iff the argument is a record whose include
\* and exclude are arrays of strings, whose four flags are booleans and
\* whose llms and typedoc are each absent or a record; it is false for
\* every llms or typedoc that is present and not a record; and
\* assertSyncOptions throws exactly when isSyncOptions is false.
C33_GuardIffValid ==
    Checked =>
        /\ GuardResult <=> StatedValid(opts)
        /\ ((Present(opts.llms) /\ opts.llms.t # "object")
             \/ (Present(opts.typedoc) /\ opts.typedoc.t # "object")) => ~GuardResult
        /\ pc = "failed" <=> ~GuardResult

\* C33 as the code has it: the guard rejects llms and typedoc values that
\* are truthy and not a record, and accepts the falsy ones.
C33_GuardIffValidOrFalsy ==
    Checked =>
        /\ GuardResult <=>
              /\ opts.t = "object"
              /\ isStringArray(opts.include) /\ isStringArray(opts.exclude)
              /\ isBoolean(opts.clean) /\ isBoolean(opts.hard)
              /\ isBoolean(opts.generateLlms) /\ isBoolean(opts.dryRun)
              /\ ToBoolean(opts.llms) => opts.llms.t = "object"
              /\ ToBoolean(opts.typedoc) => opts.typedoc.t = "object"
        /\ pc = "failed" <=> ~GuardResult
        /\ pc = "failed" <=> err = "Invalid SyncOptions"

\* Well-typed options whose llms is false are accepted.
C33_FalsyWitness ==
    /\ pc = "returned" /\ GuardResult
    /\ opts.llms = Js("boolean", "false") /\ opts.typedoc = JsUndefined

\* The steps of the loop body, and the effects each may perform.
LoopSteps == {"hash", "clean", "guides", "api", "llms", "update"}
EffectsAt(step) ==
    CASE step = "clean" -> {"rm guides", "rm api"}
      [] step = "guides" -> {"mkdir guides", "copy guides"}
      [] step = "api" -> {"install", "typedoc"}
      [] step = "llms" -> {"llms"}
      [] OTHER -> {}
StepAfter(step) ==
    CASE step = "clean" -> "guides"
      [] step = "guides" -> "api"
      [] step = "api" -> "llms"
      [] step = "llms" -> "update"
      [] OTHER -> "hash"

\* One step of the loop keeps the order of the body.
OrderedStep ==
    /\ acts' # acts =>
          /\ Len(acts') > Len(acts) /\ SubSeq(acts', 1, Len(acts)) = acts
          /\ \A i \in (Len(acts) + 1)..Len(acts') :
                acts'[i].ev \in EffectsAt(pc) /\ acts'[i].pkg = cur.baseName
          /\ cur.pkgDir = discovered[idx].pkgDir
          /\ cur.guidesHash = GuidesHashOf(cur.pkgDir)
          /\ cur.apiHash = ApiHashOf(cur.pkgDir)
    /\ outVars' # outVars => pc \in {"clean", "guides", "api", "llms"}
    /\ cache' # cache => pc = "update" /\ acts' = acts
    /\ cur' # cur => pc = "hash" /\ acts' = acts /\ cache' = cache
    /\ idx' # idx => pc \in {"hash", "update"} /\ idx' = idx + 1
    /\ pc' # "failed" =>
          IF pc \in {"clean", "guides", "api", "llms"}
          THEN pc' = StepAfter(pc) /\ idx' = idx
          ELSE \/ pc = "hash" /\ pc' = "clean" /\ idx' = idx
               \/ pc' \in {"hash", "save"} /\ idx' = idx + 1

\* C34: for each processed package both digests are computed before any
\* side effect, the side effects then occur in the order clean, copy
\* guides, generate API, generate summary, update of the in-memory cache,
\* and the packages are processed one after another.
C34_PerPackageOrdering == [][(pc \in LoopSteps) => OrderedStep]_vars

\* The effects of the package at position k of the discovery, in a run
\* with clean that processed it fully.
FullyProcessed(from, b) ==
    /\ from + 4 <= Len(acts)
    /\ acts[from] = Act("rm guides", b)
    /\ acts[from + 1] = Act("rm api", b)
    /\ acts[from + 2] = Act("copy guides", b)
    /\ acts[from + 3].ev = "typedoc" /\ acts[from + 3].pkg = b
    /\ acts[from + 4].ev = "llms" /\ acts[from + 4].pkg = b

\* A completed run with clean over two packages: the five effects of the
\* first, in order, then the effects of the second, then the save.
C34_Witness ==
    /\ pc = "done" /\ ~opts.dryRun /\ opts.clean /\ opts.generateLlms
    /\ Len(discovered) = 2
    /\ discovered[1].baseName # discovered[2].baseName
    /\ \E k \in 1..Len(acts) :
          /\ FullyProcessed(k, discovered[1].baseName)
          /\ \A i \in (k + 5)..(Len(acts) - 1) : acts[i].pkg = discovered[2].baseName
          /\ Len(acts) > k + 5
          /\ acts[Len(acts)].ev = "write cache"

\* The digest cache.json holds for a category of a base name.
OnDisk(b, category) ==
    IF category = "guides" THEN cacheFile.entries[b].guidesHash
    ELSE cacheFile.entries[b].apiHash

\* C35: after any sequence of runs, whenever cache.json holds digest d for
\* a category of a package, the last adapter call on that package's output
\* for that category returned normally and ran against inputs of digest d.
C35_CacheNeverAhead ==
    (seen.fresh /\ pc \in Terminal) =>
        \A b \in Persisted : \A category \in {"guides", "api"} :
            /\ <<b, category>> \in DOMAIN seen.last
            /\ seen.last[<<b, category>>].ok
            /\ seen.last[<<b, category>>].digest = OnDisk(b, category)

\* A run with clean removed the guides output of a package and failed in
\* the copy; cache.json still holds the digest the removed output was
\* made from.
C35_CleanedButCached ==
    /\ seen.fresh /\ pc = "failed" /\ err = "cp"
    /\ cur.baseName \in Persisted
    /\ DidFor("rm guides", cur.baseName)
    /\ startFs[7][cur.baseName].files # {}
    /\ outGuides[cur.baseName].files = {}
    /\ ~seen.last[<<cur.baseName, "guides">>].ok
    /\ seen.last[<<cur.baseName, "guides">>].digest # OnDisk(cur.baseName, "guides")

\* C36: no two packages discovered in the same run resolve to the same
\* base name, so every cache key and every output directory
\* docs/packages/<baseName> belongs to at most one package of the run.
C36_UniqueOutputTarget ==
    \A i, j \in DOMAIN discovered :
        i # j => discovered[i].baseName # discovered[j].baseName

\* A run generated the API docs of two packages into the same output
\* directory and kept one cache entry for both.
C36_SharedTarget ==
    /\ pc = "done" /\ ~opts.dryRun
    /\ \E i, j \in DOMAIN discovered :
          /\ i < j
          /\ discovered[i].pkgDir # discovered[j].pkgDir
          /\ discovered[i].baseName = discovered[j].baseName
          /\ outApi[discovered[i].baseName].exists
          /\ seen.last[<<discovered[i].baseName, "api">>].ok
          /\ discovered[i].baseName \in Persisted

\* A path one level below dir.
DirectChild(path, dir) ==
    /\ Len(path) = Len(dir) + 1
    /\ SubSeq(path, 1, Len(dir)) = dir

\* C37: for every discovered package and every manifest name, the
\* package's output root is a direct child directory of docs/packages, so
\* that clean mode and the adapters stay inside docs/packages/<baseName>.
C37_OutputContainment ==
    \A i \in DOMAIN discovered :
        DirectChild(OutRoot(discovered[i].baseName), DocsPackagesRoot)

\* The same for the packages whose base name is not empty.
C37_ContainedUnlessEmptyName ==
    \A i \in DOMAIN discovered :
        discovered[i].baseName # "" =>
            DirectChild(OutRoot(discovered[i].baseName), DocsPackagesRoot)

\* A package whose manifest name is the empty string was discovered; its
\* output root is docs/packages itself.
C37_EmptyNameWitness ==
    \E i \in DOMAIN discovered :
        /\ manifest[Basename(discovered[i].pkgDir)] = ""
        /\ OutRoot(discovered[i].baseName) = DocsPackagesRoot

\* The summaries of a discovered package are those the generator makes
\* from what is now under the package's docs root.
SummariesCurrent(p) ==
    /\ outLlms[p.baseName].exists
    /\ outLlms[p.baseName].docsRoot = DocsRoot(p.pkgDir, p.baseName)
    /\ outLlms[p.baseName].of = DocsUnder(p.pkgDir, p.baseName)

\* C38: after a successful non-dry run with summaries enabled, every
\* discovered package that has guides or generated API docs has summary
\* files generated from its current guides and API outputs, whatever the
\* options of the runs that preceded it.
C38_SummaryFreshness ==
    (pc = "done" /\ ~opts.dryRun /\ opts.generateLlms) =>
        \A i \in DOMAIN discovered :
            DocsRootExists(discovered[i].pkgDir, discovered[i].baseName) =>
                SummariesCurrent(discovered[i])

\* A successful non-dry run with summaries enabled found a package
\* unchanged and ended with docs but no summary files for it.
C38_NoSummaries ==
    /\ pc = "done" /\ ~opts.dryRun /\ opts.generateLlms
    /\ \E i \in DOMAIN discovered :
          /\ DocsRootExists(discovered[i].pkgDir, discovered[i].baseName)
          /\ ~outLlms[discovered[i].baseName].exists
          /\ \E k \in DOMAIN log : log[k] = Line("Unchanged", discovered[i].baseName)

\* The files of a tree under one of its top-level directories.
Under(tree, dir) == {f \in tree.files : Len(f.rel) > 1 /\ f.rel[1] = dir}

\* C39: normalizeLlmsOutputs called on a package output root moves,
\* overwrites or deletes no file of the copied guides output (guides/) or
\* of the generated API output (api/).
C39_NormalizationFrame ==
    \A i \in DOMAIN acts : \A dir \in {"guides", "api"} :
        Under(acts[i].after, dir) = Under(acts[i].before, dir)

\* The same for the files of guides/ and api/ whose basename is not one
\* of the expected names.
C39_FrameExceptExpectedNames ==
    \A i \in DOMAIN acts : \A dir \in {"guides", "api"} :
        {f \in Under(acts[i].after, dir) : Basename(f.rel) \notin {opts.files[k] : k \in DOMAIN opts.files}}
            = {f \in Under(acts[i].before, dir) : Basename(f.rel) \notin {opts.files[k] : k \in DOMAIN opts.files}}

\* A call moved guides/llms.txt to the root of the output directory.
C39_GuideMoved ==
    \E i \in DOMAIN acts :
        /\ [rel |-> <<"guides", "llms.txt">>, data |-> "3"] \in acts[i].before.files
        /\ [rel |-> <<"guides", "llms.txt">>, data |-> "3"] \notin acts[i].after.files
        /\ [rel |-> <<"llms.txt">>, data |-> "3"] \in acts[i].after.files

====
